---- MODULE Spec2Model ----
(***************************************************************************)
(* The game slice of space-action (src/unnamed/part_000): the redux state  *)
(* GameState, its reducers and the helpers they call.                      *)
(*                                                                         *)
(* Units.  Times are integers counted in thirds of a millisecond, so that  *)
(* the driver's fixed step 1000/60 ms is the integer 50 (Ms(n) is n ms).   *)
(* Speeds, positions and input components are integers counted in          *)
(* thousandths; factors such as steeringResponse are per mille.  Mission   *)
(* progress and target are counted in 1/3000, so that a pickup adds 3000   *)
(* and a survive tick adds deltaMs / 1000 seconds = its time units.        *)
(*                                                                         *)
(* Environment.  The free bodies' coordinates are driven by Math.random    *)
(* and by floating point kinematics; what the state machine reads of them  *)
(* is the outcome of each distance test.  A tick therefore takes, besides  *)
(* deltaMs, the set `touch` of bodies whose pickup test                    *)
(* getDistance(player, body) <= hitDistance succeeds, and the set          *)
(* `collide` of bodies the pairwise collision pass finds overlapping.      *)
(***************************************************************************)
EXTENDS Integers, Sequences, FiniteSets, TLC

VARIABLES game, prev, last, steps

vars == <<game, prev, last, steps>>

-----------------------------------------------------------------------------
(* Arithmetic helpers *)

\* The({e : s \in {v}}) is e with s standing for the value of v: v is
\* computed once, then e.  In a chain the first statement is the innermost
\* binding, on the last line, and the last statement the first line.
The(S) == CHOOSE result \in S : TRUE

Ms(n) == n * 3

Min(a, b) == IF a <= b THEN a ELSE b

Max(a, b) == IF a >= b THEN a ELSE b

Abs(a) == IF a >= 0 THEN a ELSE -a

\* v * num / den on fixed point numbers, symmetric around zero
MulDiv(v, num, den) == IF v >= 0 THEN (v * num) \div den ELSE -(((-v) * num) \div den)

\* Math.round on the fixed point number n / den
Round(n, den) == (2 * n + den) \div (2 * den)

RECURSIVE SqrtSearch(_, _, _)
\* the integer square root of n, between lo and hi
SqrtSearch(n, lo, hi) ==
    IF lo >= hi THEN lo
    ELSE The({ IF mid * mid <= n THEN SqrtSearch(n, mid, hi) ELSE SqrtSearch(n, lo, mid - 1)
           : mid \in {(lo + hi + 1) \div 2} })

\* Math.hypot, rounded down; along an axis it is the other coordinate's size
hypot(a, b) ==
    IF a = 0 THEN Abs(b)
    ELSE IF b = 0 THEN Abs(a)
    ELSE The({ SqrtSearch(n, 0, 46340) : n \in {a * a + b * b} })

-----------------------------------------------------------------------------
(* Program constants *)

DEFAULT_ARENA_WIDTH == 960
DEFAULT_ARENA_HEIGHT == 540
COMBO_WINDOW_MS == 3200
SHIELD_INVULNERABILITY_MS == 1800
HIT_INVULNERABILITY_MS == 1300
MAX_SOUND_VOLUME == 60
DEFAULT_SESSION_REMINDER_MS == 20 * 60 * 1000

Difficulties == {"easy", "normal", "hard"}
ControlSides == {"left", "right"}
RocketSkins == {"classic", "neon", "comet", "solar"}

\* DIFFICULTY_CONFIGS: the fields the state machine and the player's motion read
DIFFICULTY_CONFIGS ==
    [easy |->
        [maxSpeed |-> 7000, cruiseSpeed |-> 6200, windThreshold |-> 4000,
         steeringResponse |-> 380, idleDamping |-> 920, minDriftSpeed |-> 1000,
         playerBounceDamping |-> 940,
         earthPoints |-> 14, marsPoints |-> 22, sunPoints |-> 110,
         baseLives |-> 5, baseShieldCharges |-> 3, levelScoreStep |-> 230,
         missionTargetScale |-> 85, missionRewardScale |-> 100],
     normal |->
        [maxSpeed |-> 8000, cruiseSpeed |-> 7200, windThreshold |-> 4800,
         steeringResponse |-> 340, idleDamping |-> 900, minDriftSpeed |-> 1150,
         playerBounceDamping |-> 900,
         earthPoints |-> 16, marsPoints |-> 24, sunPoints |-> 120,
         baseLives |-> 4, baseShieldCharges |-> 2, levelScoreStep |-> 200,
         missionTargetScale |-> 100, missionRewardScale |-> 112],
     hard |->
        [maxSpeed |-> 9300, cruiseSpeed |-> 8100, windThreshold |-> 5600,
         steeringResponse |-> 310, idleDamping |-> 880, minDriftSpeed |-> 1200,
         playerBounceDamping |-> 860,
         earthPoints |-> 18, marsPoints |-> 30, sunPoints |-> 145,
         baseLives |-> 3, baseShieldCharges |-> 1, levelScoreStep |-> 170,
         missionTargetScale |-> 120, missionRewardScale |-> 128]]

getDifficultyConfig(difficulty) == DIFFICULTY_CONFIGS[difficulty]

\* EXTRA_PLANET_BLUEPRINTS, in the order of the array
ExtraPlanetIds == <<"mercury", "venus", "saturn", "uranus", "neptune">>

EXTRA_PLANET_POINTS ==
    [mercury |-> 10, venus |-> 14, saturn |-> 24, uranus |-> 18, neptune |-> 22]

\* the keys of PlanetCatchStats; every body but the player carries one of them
Planets ==
    {"mercury", "venus", "earth", "mars", "jupiter", "saturn", "uranus", "neptune", "sun"}

\* getMovingPlanets: spark (earth), comet (mars), hazard (jupiter), the extra planets
MovingPlanets == Planets \ {"sun"}

\* MISSION_TEMPLATES, in the order of the array
MISSION_TEMPLATES ==
    << [kind |-> "earth", baseTarget |-> 2, baseReward |-> 50, timeMs |-> 34000],
       [kind |-> "mars", baseTarget |-> 2, baseReward |-> 75, timeMs |-> 36000],
       [kind |-> "sun", baseTarget |-> 1, baseReward |-> 95, timeMs |-> 35000],
       [kind |-> "survive", baseTarget |-> 22, baseReward |-> 70, timeMs |-> 30000] >>

-----------------------------------------------------------------------------
(* Construction *)

\* an announcement: the literal text and the number a template puts in it
Text(text, n) == [text |-> text, n |-> n]

\* createCollectible, createHome, createHazard, createExtraPlanets: the fields
\* of a fresh body other than its random coordinates
createBody(visible) == [visible |-> visible, cooldownMs |-> 0, impactMs |-> 0]

\* one value for each body, value[p] for the body with the key p
eachPlanet(value) ==
    [mercury |-> value["mercury"], venus |-> value["venus"], earth |-> value["earth"],
     mars |-> value["mars"], jupiter |-> value["jupiter"], saturn |-> value["saturn"],
     uranus |-> value["uranus"], neptune |-> value["neptune"], sun |-> value["sun"]]

createBodies ==
    eachPlanet([p \in Planets |->
                  createBody(p \in {"mercury", "venus", "saturn", "uranus", "neptune"})])

createPlayer(width, height) ==
    [x |-> (width * 1000) \div 2, y |-> (height * 1000) \div 2,
     vx |-> 0, vy |-> 0, impactMs |-> 0]

createMission(seed, difficulty) ==
    LET template == MISSION_TEMPLATES[(seed % Len(MISSION_TEMPLATES)) + 1]
        config == getDifficultyConfig(difficulty)
    IN  [id |-> seed,
         kind |-> template.kind,
         target |-> 3000 * Max(1, Round(template.baseTarget * config.missionTargetScale, 100)),
         progress |-> 0,
         rewardPoints |-> Max(25, Round(template.baseReward * config.missionRewardScale, 100)),
         timeLimitMs |-> Ms(template.timeMs),
         timeLeftMs |-> Ms(template.timeMs)]

emptyEventSignal ==
    [collect |-> 0, hit |-> 0, mission |-> 0, badge |-> 0,
     level |-> 0, unlock |-> 0, shield |-> 0]

emptyPlanetCatches == eachPlanet([p \in Planets |-> 0])

\* createInitialState; storedHighScore is what loadStoredHighScore returns
createInitialState(storedHighScore) ==
    LET config == getDifficultyConfig("normal")
    IN  [arenaWidth |-> DEFAULT_ARENA_WIDTH,
         arenaHeight |-> DEFAULT_ARENA_HEIGHT,
         difficulty |-> "normal",
         controlSide |-> "left",
         input |-> [x |-> 0, y |-> 0],
         lastDirection |-> [x |-> 0, y |-> 0],
         player |-> createPlayer(DEFAULT_ARENA_WIDTH, DEFAULT_ARENA_HEIGHT),
         bodies |-> createBodies,
         hazardActive |-> FALSE,
         score |-> 0,
         highScore |-> storedHighScore,
         combo |-> 1,
         comboTimerMs |-> 0,
         level |-> 1,
         lives |-> config.baseLives,
         shieldCharges |-> config.baseShieldCharges,
         invulnerabilityMs |-> 0,
         secondChanceUsed |-> FALSE,
         windMode |-> FALSE,
         isPaused |-> FALSE,
         isGameOver |-> FALSE,
         announcement |-> Text("Hazir! Roketini yon tuslariyla hareket ettir.", 0),
         announcementTimerMs |-> Ms(2200),
         planetChainMs |-> 0,
         missionsCompleted |-> 0,
         missionSeed |-> 0,
         currentMission |-> createMission(0, "normal"),
         planetCatches |-> emptyPlanetCatches,
         learningFact |-> "",
         learningFactTimerMs |-> 0,
         unlockedSkins |-> <<"classic">>,
         selectedSkin |-> "classic",
         badges |-> <<>>,
         settings |-> [soundVolume |-> 45,
                       vibrationEnabled |-> TRUE,
                       sessionReminderEnabled |-> TRUE,
                       sessionReminderMs |-> Ms(DEFAULT_SESSION_REMINDER_MS)],
         sessionElapsedMs |-> 0,
         showBreakReminder |-> FALSE,
         eventSignal |-> emptyEventSignal]

-----------------------------------------------------------------------------
(* Helpers of the reducers *)

includes(seq, e) == \E i \in 1..Len(seq) : seq[i] = e

setAnnouncement(state, text, timerMs) ==
    [state EXCEPT !.announcement = text, !.announcementTimerMs = Ms(timerMs)]

\* refreshHighScore with the comparison turned around
refreshHighScoreInverted(state) ==
    [state EXCEPT !.highScore = IF state.score < @ THEN state.score ELSE @]

refreshHighScore(state) ==
    [state EXCEPT !.highScore = IF state.score > @ THEN state.score ELSE @]

\* incrementEvent building the record anew, the other counters lost
incrementEventAlone(state, key) ==
    [state EXCEPT !.eventSignal = [emptyEventSignal EXCEPT ![key] = state.eventSignal[key] + 1]]

incrementEvent(state, key) ==
    [state EXCEPT !.eventSignal[key] = @ + 1]

\* unlockSkin without the test for a skin already unlocked
unlockSkinAgain(state, skin, message) ==
    setAnnouncement(
        incrementEvent([state EXCEPT !.unlockedSkins = Append(@, skin)], "unlock"),
        Text(message, 0), 1700)

\* unlockSkin assigning the list instead of pushing to it
unlockSkinReplacing(state, skin, message) ==
    IF includes(state.unlockedSkins, skin) THEN state
    ELSE setAnnouncement(
            incrementEvent([state EXCEPT !.unlockedSkins = <<skin>>], "unlock"),
            Text(message, 0), 1700)

unlockSkin(state, skin, message) ==
    IF includes(state.unlockedSkins, skin) THEN state
    ELSE setAnnouncement(
            incrementEvent([state EXCEPT !.unlockedSkins = Append(@, skin)], "unlock"),
            Text(message, 0), 1700)

grantBadge(state, badgeId, message) ==
    IF includes(state.badges, badgeId) THEN state
    ELSE setAnnouncement(
            incrementEvent([state EXCEPT !.badges = Append(@, badgeId)], "badge"),
            Text(message, 0), 1700)

\* PLANET_FACTS[key] is one text per key: the fact is recorded by its key
setLearningFact(state, key) ==
    [state EXCEPT !.learningFact = key, !.learningFactTimerMs = Ms(6200)]

\* maybeLevelUp raising the level by one, whatever the score
maybeLevelUpByOne(state) ==
    IF (state.score \div getDifficultyConfig(state.difficulty).levelScoreStep) + 1 > state.level
    THEN setAnnouncement(
            incrementEvent(
                [state EXCEPT !.level = @ + 1, !.shieldCharges = Min(5, @ + 1)],
                "level"),
            Text("Seviye !", state.level + 1), 1400)
    ELSE state

\* maybeLevelUp taking the multiples of levelScoreStep for the level
maybeLevelUpFromZero(state) ==
    LET config == getDifficultyConfig(state.difficulty)
        nextLevel == state.score \div config.levelScoreStep
    IN  IF nextLevel > state.level
        THEN setAnnouncement(
                incrementEvent(
                    [state EXCEPT !.level = nextLevel,
                                  !.shieldCharges = Min(5, @ + 1)],
                    "level"),
                Text("Seviye !", nextLevel), 1400)
        ELSE state

maybeLevelUp(state) ==
    LET config == getDifficultyConfig(state.difficulty)
        nextLevel == (state.score \div config.levelScoreStep) + 1
    IN  IF nextLevel > state.level
        THEN setAnnouncement(
                incrementEvent(
                    [state EXCEPT !.level = nextLevel,
                                  !.shieldCharges = Min(5, @ + 1)],
                    "level"),
                Text("Seviye !", nextLevel), 1400)
        ELSE state

checkUnlocksAndBadges(state) ==
    The({ The({ The({ The({ The({ The({ The({ IF s7.sessionElapsedMs >= Ms(3 * 60 * 1000)
         THEN grantBadge(s7, "space-marathon", "Rozet acildi: Uzay Maratoncusu")
         ELSE s7
      : s7 \in {IF \A p \in Planets \ {"sun"} : s6.planetCatches[p] > 0
         THEN grantBadge(s6, "solar-explorer", "Rozet acildi: Gunes Sistemi Kesifcisi")
         ELSE s6} })
      : s6 \in {IF s5.score >= 500
         THEN grantBadge(s5, "score-500", "Rozet acildi: 500+ Puan")
         ELSE s5} })
      : s5 \in {IF s4.planetCatches["mars"] >= 6
         THEN grantBadge(s4, "mars-collector", "Rozet acildi: Mars Koleksiyoncusu")
         ELSE s4} })
      : s4 \in {IF s3.missionsCompleted >= 1
         THEN grantBadge(s3, "mission-starter", "Rozet acildi: Gorev Baslangici")
         ELSE s3} })
      : s3 \in {IF s2.planetCatches["sun"] >= 5
         THEN unlockSkin(s2, "solar", "Yeni roket skini acildi: Solar Core!")
         ELSE s2} })
      : s2 \in {IF s1.missionsCompleted >= 3
         THEN unlockSkin(s1, "comet", "Yeni roket skini acildi: Kuyruklu Yildiz!")
         ELSE s1} })
      : s1 \in {IF state.score >= 160
         THEN unlockSkin(state, "neon", "Yeni roket skini acildi: Neon!")
         ELSE state} })

\* createNextMission leaving the seed as it is
createNextMissionSameSeed(state) ==
    [state EXCEPT !.currentMission = createMission(state.missionSeed + 1, state.difficulty)]

createNextMission(state) ==
    [state EXCEPT !.missionSeed = @ + 1,
                  !.currentMission = createMission(state.missionSeed + 1, state.difficulty)]

\* completeMission with the reward multiplied by the combo, like a pickup
completeMissionTimesCombo(state) ==
    The({ The({ The({ The({ createNextMission(s4)
      : s4 \in {checkUnlocksAndBadges(s3)} })
      : s3 \in {setAnnouncement(
            incrementEvent(
                [s2 EXCEPT
                   !.missionsCompleted = @ + 1,
                   !.shieldCharges = Min(5, @ + 1),
                   !.lives = Min(getDifficultyConfig(s2.difficulty).baseLives + 1, @ + 1)],
                "mission"),
            Text("Gorev tamamlandi! +", state.currentMission.rewardPoints), 1600)} })
      : s2 \in {maybeLevelUp(s1)} })
      : s1 \in {refreshHighScore(
            [state EXCEPT !.score = @ + state.currentMission.rewardPoints * state.combo])} })

completeMission(state) ==
    The({ The({ The({ The({ createNextMission(s4)
      : s4 \in {checkUnlocksAndBadges(s3)} })
      : s3 \in {setAnnouncement(
            incrementEvent(
                [s2 EXCEPT
                   !.missionsCompleted = @ + 1,
                   !.shieldCharges = Min(5, @ + 1),
                   !.lives = Min(getDifficultyConfig(s2.difficulty).baseLives + 1, @ + 1)],
                "mission"),
            Text("Gorev tamamlandi! +", state.currentMission.rewardPoints), 1600)} })
      : s2 \in {maybeLevelUp(s1)} })
      : s1 \in {refreshHighScore(
            [state EXCEPT !.score = @ + state.currentMission.rewardPoints])} })

\* failMission giving the mission its full time again
failMissionOnceMore(state) ==
    [state EXCEPT !.currentMission.timeLeftMs = state.currentMission.timeLimitMs]

\* failMission counting the timeout as a mission event
failMissionCounted(state) ==
    The({ createNextMission(incrementEvent(s1, "mission"))
      : s1 \in {setAnnouncement(state, Text("Gorev suresi doldu. Yeni gorev geldi!", 0), 1500)} })

failMission(state) ==
    The({ createNextMission(s1)
      : s1 \in {setAnnouncement(state, Text("Gorev suresi doldu. Yeni gorev geldi!", 0), 1500)} })

\* amount is counted in 1/3000, like progress and target
progressMission(state, kind, amount) ==
    IF state.currentMission.kind # kind THEN state
    ELSE The({ IF s1.currentMission.progress >= s1.currentMission.target
              THEN completeMission(s1)
              ELSE s1
           : s1 \in {[state EXCEPT !.currentMission.progress =
                  Min(state.currentMission.target, @ + amount)]} })

\* collectPoints without the cap of the combo
collectPointsUncapped(state, points, text) ==
    The({ The({ The({ checkUnlocksAndBadges(s3)
      : s3 \in {setAnnouncement(
                    incrementEvent(
                        [s2 EXCEPT !.combo = @ + 1, !.comboTimerMs = Ms(COMBO_WINDOW_MS)],
                        "collect"),
                    Text(text, Max(0, points)), 1000)} })
      : s2 \in {maybeLevelUp(s1)} })
      : s1 \in {refreshHighScore([state EXCEPT !.score = @ + Max(0, points)])} })

\* points is an integer, so Math.round(points) is points
collectPoints(state, points, text) ==
    The({ The({ The({ checkUnlocksAndBadges(s3)
      : s3 \in {setAnnouncement(
            incrementEvent(
                [s2 EXCEPT !.combo = Min(9, @ + 1),
                           !.comboTimerMs = Ms(COMBO_WINDOW_MS)],
                "collect"),
            Text(text, Max(0, points)), 1000)} })
      : s2 \in {maybeLevelUp(s1)} })
      : s1 \in {refreshHighScore([state EXCEPT !.score = @ + Max(0, points)])} })

\* triggerPlanetImpact: the impact flashes and the chain timer; the radial
\* push it gives the moving bodies acts on their coordinates only
triggerPlanetImpact(state, source) ==
    [state EXCEPT
       !.bodies = eachPlanet([p \in Planets |->
                     [state.bodies[p] EXCEPT !.impactMs =
                        IF p = source THEN Ms(420) ELSE Max(@, Ms(180))]]),
       !.planetChainMs = Ms(220)]

\* the restitution impulse with less than the relative velocity taken back
bounceDamped(relativeVelocity) == MulDiv(relativeVelocity, 4, 10)

\* const bounce = relativeVelocity * 0.9
bounce(relativeVelocity) == MulDiv(relativeVelocity, 9, 10)

\* entity.vx * nx + entity.vy * ny, with d the vector between the centres
normalVelocity(entity, d, distance) ==
    MulDiv(entity.vx * d.x + entity.vy * d.y, 1, distance)

\* resolvePlanetPair on the bodies pair.first and pair.second: coordinates
\* and velocities in thousandths, nx and ny kept as d.x and d.y over distance
resolvePlanetPair(pair) ==
    IF ~pair.first.visible \/ ~pair.second.visible THEN pair
    ELSE The({ The({ The({
            IF distance <= 1 \/ distance >= minDistance THEN pair
            ELSE The({ The({ The({
                    [first |-> [pair.first EXCEPT
                        !.x = @ - shift.x, !.y = @ - shift.y,
                        !.vx = @ + impulse.x, !.vy = @ + impulse.y,
                        !.impactMs = Max(@, Ms(170))],
                     second |-> [pair.second EXCEPT
                        !.x = @ + shift.x, !.y = @ + shift.y,
                        !.vx = @ - impulse.x, !.vy = @ - impulse.y,
                        !.impactMs = Max(@, Ms(170))]]
                 : impulse \in {IF relativeVelocity <= 0
                      THEN [x |-> MulDiv(d.x, bounce(relativeVelocity), distance),
                            y |-> MulDiv(d.y, bounce(relativeVelocity), distance)]
                      ELSE [x |-> 0, y |-> 0]} })
                 : relativeVelocity \in {normalVelocity(pair.second, d, distance)
                                         - normalVelocity(pair.first, d, distance)} })
                 : shift \in {[x |-> MulDiv(d.x, minDistance - distance, 2 * distance),
                               y |-> MulDiv(d.y, minDistance - distance, 2 * distance)]} })
         : minDistance \in {(pair.first.radius + pair.second.radius) * 1000} })
         : distance \in {hypot(d.x, d.y)} })
         : d \in {[x |-> pair.second.x - pair.first.x,
                    y |-> pair.second.y - pair.first.y]} })

\* resolvePlanetCollisions: resolvePlanetPair raises the impact flash of both
\* bodies of every visible overlapping pair; `collide` holds those bodies
resolvePlanetCollisions(state, collide) ==
    [state EXCEPT
       !.bodies = eachPlanet([p \in Planets |->
                     IF p \in collide /\ state.bodies[p].visible
                     THEN [state.bodies[p] EXCEPT !.impactMs = Max(@, Ms(170))]
                     ELSE state.bodies[p]])]

setupRound(state, message) ==
    setAnnouncement(
      [state EXCEPT
         !.input = [x |-> 0, y |-> 0],
         !.lastDirection = [x |-> 0, y |-> 0],
         !.player = createPlayer(state.arenaWidth, state.arenaHeight),
         !.bodies = createBodies,
         !.hazardActive = FALSE,
         !.score = 0,
         !.combo = 1,
         !.comboTimerMs = 0,
         !.level = 1,
         !.lives = getDifficultyConfig(state.difficulty).baseLives,
         !.shieldCharges = getDifficultyConfig(state.difficulty).baseShieldCharges,
         !.invulnerabilityMs = 0,
         !.secondChanceUsed = FALSE,
         !.windMode = FALSE,
         !.isPaused = FALSE,
         !.isGameOver = FALSE,
         !.planetChainMs = 0,
         !.planetCatches = emptyPlanetCatches,
         !.currentMission = createMission(state.missionSeed + 1, state.difficulty),
         !.missionSeed = @ + 1,
         !.learningFact = "",
         !.learningFactTimerMs = 0,
         !.sessionElapsedMs = 0,
         !.showBreakReminder = FALSE,
         !.eventSignal = emptyEventSignal],
      message, 1600)

-----------------------------------------------------------------------------
(* The steps of a tick *)

setBody(state, id, field, value) ==
    [state EXCEPT !.bodies[id] = [@ EXCEPT ![field] = value]]

\* the countdown of a body's pickup cooldown
coolDown(state, id, deltaMs) ==
    [state EXCEPT !.bodies[id] = [@ EXCEPT !.cooldownMs = Max(0, @ - deltaMs)]]

\* collectible.points, set by createCollectible from the round's difficulty
collectiblePoints(state, id) ==
    IF id = "earth" THEN getDifficultyConfig(state.difficulty).earthPoints
    ELSE getDifficultyConfig(state.difficulty).marsPoints

\* collectCollectible with the combo after the pickup as the multiplier
collectCollectibleNextCombo(state, id) ==
    The({ The({ The({ setBody(triggerPlanetImpact(s3, id), id, "cooldownMs", Ms(500))
      : s3 \in {progressMission(s2, id, 3000)} })
      : s2 \in {setLearningFact([s1 EXCEPT !.planetCatches[id] = @ + 1], id)} })
      : s1 \in {collectPoints(state, collectiblePoints(state, id) * Min(9, state.combo + 1),
                               IF id = "earth" THEN "Dunya yakalandi!" ELSE "Mars yakalandi!")} })

\* moveCollectible, from the distance test that succeeded
collectCollectible(state, id) ==
    The({ The({ The({ setBody(triggerPlanetImpact(s3, id), id, "cooldownMs", Ms(500))
      : s3 \in {progressMission(s2, id, 3000)} })
      : s2 \in {setLearningFact([s1 EXCEPT !.planetCatches[id] = @ + 1], id)} })
      : s1 \in {collectPoints(state, collectiblePoints(state, id) * state.combo,
                       IF id = "earth" THEN "Dunya yakalandi!" ELSE "Mars yakalandi!")} })

\* moveCollectible testing the distance during the cooldown too
moveCollectibleAnytime(state, id, deltaMs, touch) ==
    IF id \in touch
    THEN The({ collectCollectible(s0, id)
           : s0 \in {setBody(state, id, "visible", TRUE)} })
    ELSE coolDown(setBody(state, id, "visible", TRUE), id, deltaMs)

moveCollectible(state, id, deltaMs, touch) ==
    IF state.bodies[id].cooldownMs > 0
    THEN coolDown(setBody(state, id, "visible", TRUE), id, deltaMs)
    ELSE IF id \in touch
    THEN The({ collectCollectible(s0, id)
           : s0 \in {setBody(state, id, "visible", TRUE)} })
    ELSE setBody(state, id, "visible", TRUE)

\* saturn and neptune also scale the moving bodies' velocities
applyExtraPlanetEffect(state, id) ==
    CASE id = "mercury" ->
            setAnnouncement(
                [state EXCEPT !.comboTimerMs = Max(@, Ms(COMBO_WINDOW_MS + 500))],
                Text("Merkur: mini hiz ivmesi!", 0), 950)
      [] id = "venus" ->
            setAnnouncement(
                [state EXCEPT !.shieldCharges = Min(5, @ + 1)],
                Text("Venus: kalkan +1", 0), 1100)
      [] id = "saturn" ->
            setAnnouncement(state, Text("Saturn halkalari: uzay akisina fren!", 0), 1200)
      [] id = "uranus" ->
            setAnnouncement(
                [state EXCEPT !.lives =
                    Min(getDifficultyConfig(state.difficulty).baseLives + 2, @ + 1)],
                Text("Uranus: ekstra can +1", 0), 1200)
      [] OTHER ->
            setAnnouncement(
                [state EXCEPT !.combo = Min(9, @ + 1),
                              !.comboTimerMs = Max(@, Ms(COMBO_WINDOW_MS + 1000))],
                Text("Neptune: combo uzatildi!", 0), 1150)

\* `${planet.id.toUpperCase()} yakalandi!`
ExtraPlanetText ==
    [mercury |-> "MERCURY yakalandi!", venus |-> "VENUS yakalandi!",
     saturn |-> "SATURN yakalandi!", uranus |-> "URANUS yakalandi!",
     neptune |-> "NEPTUNE yakalandi!"]

\* moveExtraPlanets, one planet from the distance test that succeeded
collectExtraPlanet(state, id) ==
    The({ The({ The({ setBody(triggerPlanetImpact(s3, id), id, "cooldownMs", Ms(650))
      : s3 \in {applyExtraPlanetEffect([s2 EXCEPT !.planetCatches[id] = @ + 1], id)} })
      : s2 \in {setLearningFact(s1, id)} })
      : s1 \in {collectPoints(state, EXTRA_PLANET_POINTS[id] * state.combo, ExtraPlanetText[id])} })

\* one iteration of the loop of moveExtraPlanets
moveExtraPlanet(state, id, deltaMs, touch) ==
    IF state.bodies[id].cooldownMs > 0
    THEN coolDown(setBody(state, id, "visible", TRUE), id, deltaMs)
    ELSE IF id \notin touch THEN setBody(state, id, "visible", TRUE)
    ELSE The({ collectExtraPlanet(s0, id)
           : s0 \in {setBody(state, id, "visible", TRUE)} })

RECURSIVE moveExtraPlanetsFrom(_, _, _, _)
moveExtraPlanetsFrom(state, index, deltaMs, touch) ==
    IF index > Len(ExtraPlanetIds) THEN state
    ELSE The({ moveExtraPlanetsFrom(s1, index + 1, deltaMs, touch)
           : s1 \in {moveExtraPlanet(state, ExtraPlanetIds[index], deltaMs, touch)} })

moveExtraPlanets(state, deltaMs, touch) == moveExtraPlanetsFrom(state, 1, deltaMs, touch)

\* moveHome, from the distance test that succeeded
collectHome(state) ==
    The({ The({ The({ setBody(triggerPlanetImpact(s3, "sun"), "sun", "cooldownMs", Ms(1000))
      : s3 \in {progressMission(s2, "sun", 3000)} })
      : s2 \in {setLearningFact([s1 EXCEPT !.planetCatches["sun"] = @ + 1], "sun")} })
      : s1 \in {collectPoints(state, getDifficultyConfig(state.difficulty).sunPoints * state.combo,
                       "Gunes bonusu!")} })

moveHome(state, deltaMs, touch) ==
    IF state.bodies["sun"].cooldownMs > 0
    THEN coolDown(setBody(state, "sun", "visible", TRUE), "sun", deltaMs)
    ELSE IF "sun" \in touch
    THEN The({ collectHome(s0)
           : s0 \in {setBody(state, "sun", "visible", TRUE)} })
    ELSE setBody(state, "sun", "visible", TRUE)

\* outOfLives granting the second chance without recording it
outOfLivesUnmarked(state) ==
    IF ~state.secondChanceUsed
    THEN setAnnouncement(
            incrementEvent(
                [state EXCEPT !.lives = 1,
                              !.shieldCharges = Max(@, 1),
                              !.invulnerabilityMs = Ms(2600)],
                "shield"),
            Text("Son sans devrede! Devam et!", 0), 1800)
    ELSE setAnnouncement(
            [state EXCEPT !.isGameOver = TRUE,
                          !.isPaused = TRUE,
                          !.input = [x |-> 0, y |-> 0],
                          !.player = [@ EXCEPT !.vx = 0, !.vy = 0]],
            Text("Gorev bitti! Yeniden basla.", 0), 2500)

\* outOfLives ending the game with the player still moving
outOfLivesMoving(state) ==
    IF ~state.secondChanceUsed
    THEN setAnnouncement(
            incrementEvent(
                [state EXCEPT !.secondChanceUsed = TRUE,
                              !.lives = 1,
                              !.shieldCharges = Max(@, 1),
                              !.invulnerabilityMs = Ms(2600)],
                "shield"),
            Text("Son sans devrede! Devam et!", 0), 1800)
    ELSE setAnnouncement(
            [state EXCEPT !.isGameOver = TRUE, !.isPaused = TRUE],
            Text("Gorev bitti! Yeniden basla.", 0), 2500)

\* outOfLives ending the game at once, no second chance
outOfLivesAtOnce(state) ==
    setAnnouncement(
        [state EXCEPT !.isGameOver = TRUE,
                      !.isPaused = TRUE,
                      !.input = [x |-> 0, y |-> 0],
                      !.player = [@ EXCEPT !.vx = 0, !.vy = 0]],
        Text("Gorev bitti! Yeniden basla.", 0), 2500)

\* moveHazard, `if (state.lives <= 0)` after a hit
outOfLives(state) ==
    IF ~state.secondChanceUsed
    THEN setAnnouncement(
            incrementEvent(
                [state EXCEPT !.secondChanceUsed = TRUE,
                              !.lives = 1,
                              !.shieldCharges = Max(@, 1),
                              !.invulnerabilityMs = Ms(2600)],
                "shield"),
            Text("Son sans devrede! Devam et!", 0), 1800)
    ELSE setAnnouncement(
            [state EXCEPT !.isGameOver = TRUE,
                          !.isPaused = TRUE,
                          !.input = [x |-> 0, y |-> 0],
                          !.player = [@ EXCEPT !.vx = 0, !.vy = 0]],
            Text("Gorev bitti! Yeniden basla.", 0), 2500)

\* hazardContact with the shield granting the invulnerability window of a hit
hazardContactShortShield(state) ==
    The({ IF s1.invulnerabilityMs > 0
         THEN setBody(s1, "jupiter", "cooldownMs", Ms(500))
         ELSE IF s1.shieldCharges > 0
         THEN setBody(
                setLearningFact(
                    setAnnouncement(
                        incrementEvent(
                            [s1 EXCEPT !.shieldCharges = @ - 1,
                                       !.invulnerabilityMs = Ms(HIT_INVULNERABILITY_MS)],
                            "shield"),
                        Text("Kalkan seni korudu!", 0), 1100),
                    "jupiter"),
                "jupiter", "cooldownMs", Ms(900))
         ELSE The({ IF s2.lives <= 0 THEN outOfLives(s2) ELSE s2
                : s2 \in {setBody(
                     setLearningFact(
                         setAnnouncement(
                             incrementEvent(
                                 [s1 EXCEPT !.lives = @ - 1,
                                            !.combo = 1,
                                            !.comboTimerMs = 0,
                                            !.invulnerabilityMs = Ms(HIT_INVULNERABILITY_MS)],
                                 "hit"),
                             Text("Dikkat! Jupiter firtinasina carptin.", 0), 1200),
                         "jupiter"),
                     "jupiter", "cooldownMs", Ms(1200))} })
      : s1 \in {triggerPlanetImpact([state EXCEPT !.planetCatches["jupiter"] = @ + 1], "jupiter")} })

\* hazardContact with a hit leaving the combo and its timer as they are
hazardContactKeepingCombo(state) ==
    The({ IF s1.invulnerabilityMs > 0
         THEN setBody(s1, "jupiter", "cooldownMs", Ms(500))
         ELSE IF s1.shieldCharges > 0
         THEN setBody(
                setLearningFact(
                    setAnnouncement(
                        incrementEvent(
                            [s1 EXCEPT !.shieldCharges = @ - 1,
                                       !.invulnerabilityMs = Ms(SHIELD_INVULNERABILITY_MS)],
                            "shield"),
                        Text("Kalkan seni korudu!", 0), 1100),
                    "jupiter"),
                "jupiter", "cooldownMs", Ms(900))
         ELSE The({ IF s2.lives <= 0 THEN outOfLives(s2) ELSE s2
                : s2 \in {setBody(
                     setLearningFact(
                         setAnnouncement(
                             incrementEvent(
                                 [s1 EXCEPT !.lives = @ - 1,
                                            !.invulnerabilityMs = Ms(HIT_INVULNERABILITY_MS)],
                                 "hit"),
                             Text("Dikkat! Jupiter firtinasina carptin.", 0), 1200),
                         "jupiter"),
                     "jupiter", "cooldownMs", Ms(1200))} })
      : s1 \in {triggerPlanetImpact([state EXCEPT !.planetCatches["jupiter"] = @ + 1], "jupiter")} })

\* moveHazard, from the distance test that succeeded
hazardContact(state) ==
    The({ IF s1.invulnerabilityMs > 0
         THEN setBody(s1, "jupiter", "cooldownMs", Ms(500))
         ELSE IF s1.shieldCharges > 0
         THEN setBody(
                setLearningFact(
                    setAnnouncement(
                        incrementEvent(
                            [s1 EXCEPT !.shieldCharges = @ - 1,
                                       !.invulnerabilityMs = Ms(SHIELD_INVULNERABILITY_MS)],
                            "shield"),
                        Text("Kalkan seni korudu!", 0), 1100),
                    "jupiter"),
                "jupiter", "cooldownMs", Ms(900))
         ELSE The({ IF s2.lives <= 0 THEN outOfLives(s2) ELSE s2
                : s2 \in {setBody(
                     setLearningFact(
                         setAnnouncement(
                             incrementEvent(
                                 [s1 EXCEPT !.lives = @ - 1,
                                            !.combo = 1,
                                            !.comboTimerMs = 0,
                                            !.invulnerabilityMs = Ms(HIT_INVULNERABILITY_MS)],
                                 "hit"),
                             Text("Dikkat! Jupiter firtinasina carptin.", 0), 1200),
                         "jupiter"),
                     "jupiter", "cooldownMs", Ms(1200))} })
      : s1 \in {triggerPlanetImpact([state EXCEPT !.planetCatches["jupiter"] = @ + 1], "jupiter")} })

moveHazard(state, deltaMs, touch) ==
    The({ IF s0.bodies["jupiter"].cooldownMs > 0 THEN coolDown(s0, "jupiter", deltaMs)
         ELSE IF "jupiter" \in touch THEN hazardContact(s0)
         ELSE s0
      : s0 \in {setBody([state EXCEPT !.hazardActive = TRUE], "jupiter", "visible", TRUE)} })

-----------------------------------------------------------------------------
(* The player's motion *)

PLAYER_RADIUS == 18

\* Math.pow(config.idleDamping, frameScale) in 1/10000, for the frame scales
\* 0.48, 1 and 2.88 of an 8 ms, a 1000/60 ms and a 48 ms step
idleDampingPow(idleDamping, deltaMs) ==
    CASE deltaMs = 50 -> idleDamping * 10
      [] deltaMs = 24 /\ idleDamping = 920 -> 9608
      [] deltaMs = 24 /\ idleDamping = 900 -> 9507
      [] deltaMs = 24 /\ idleDamping = 880 -> 9405
      [] deltaMs = 144 /\ idleDamping = 920 -> 7865
      [] deltaMs = 144 /\ idleDamping = 900 -> 7383
      [] deltaMs = 144 /\ idleDamping = 880 -> 6920

\* bounceInsideArena; movementScale is deltaMs / 50, bounceDamping per mille
bounceInsideArena(entity, radius, width, height, deltaMs, bounceDamping) ==
    The({ The({ The({ The({ The({ IF e3.y >= max.y
         THEN [e3 EXCEPT !.y = max.y, !.vy = -MulDiv(Abs(@), bounceDamping, 1000)]
         ELSE e3
      : e3 \in {IF e2.y <= radius * 1000
                 THEN [e2 EXCEPT !.y = radius * 1000,
                                 !.vy = MulDiv(Abs(@), bounceDamping, 1000)]
                 ELSE e2} })
      : e2 \in {IF e1.x >= max.x
                 THEN [e1 EXCEPT !.x = max.x, !.vx = -MulDiv(Abs(@), bounceDamping, 1000)]
                 ELSE e1} })
      : e1 \in {IF e0.x <= radius * 1000
                 THEN [e0 EXCEPT !.x = radius * 1000,
                                 !.vx = MulDiv(Abs(@), bounceDamping, 1000)]
                 ELSE e0} })
      : e0 \in {[entity EXCEPT !.x = @ + MulDiv(entity.vx, deltaMs, 50),
                                !.y = @ + MulDiv(entity.vy, deltaMs, 50)]} })
      : max \in {[x |-> Max(radius * 1000, (width - radius) * 1000),
                   y |-> Max(radius * 1000, (height - radius) * 1000)]} })

\* the vector (x, y) scaled by num / den
scale(vector, num, den) ==
    [x |-> MulDiv(vector.x, num, den), y |-> MulDiv(vector.y, num, den)]

\* tick, from the input to windMode; a velocity is a vector here.  Every
\* number of the model is finite, so the recovery from a non-finite player
\* is never entered.
movePlayer(state, deltaMs) ==
    The({ The({ The({ The({ The({ The({ The({ The({ The({ The({ The({ The({ [state EXCEPT !.lastDirection = lastDirection,
                       !.player = player,
                       !.windMode = hypot(player.vx, player.vy) >= config.windThreshold]
      : player \in {bounceInsideArena(
                        [state.player EXCEPT !.vx = IF Abs(v4.x) < 50 THEN 0 ELSE v4.x,
                                             !.vy = IF Abs(v4.y) < 50 THEN 0 ELSE v4.y],
                        PLAYER_RADIUS, state.arenaWidth, state.arenaHeight,
                        deltaMs, config.playerBounceDamping)} })
      : v4 \in {IF currentSpeed > config.maxSpeed /\ currentSpeed > 0
                 THEN scale(v3, config.maxSpeed, currentSpeed)
                 ELSE v3} })
      : currentSpeed \in {hypot(v3.x, v3.y)} })
      : v3 \in {IF inputMagnitude = 0
                    /\ (Abs(lastDirection.x) > 0 \/ Abs(lastDirection.y) > 0)
                    /\ driftSpeed > 0 /\ driftSpeed < config.minDriftSpeed
                 THEN scale(lastDirection, config.minDriftSpeed, 1000)
                 ELSE v2} })
      : driftSpeed \in {hypot(v2.x, v2.y)} })
      : v2 \in {IF inputMagnitude = 0
                 THEN scale(v1, idleDampingPow(config.idleDamping, deltaMs), 10000)
                 ELSE v1} })
      : v1 \in {[x |-> state.player.vx
                        + MulDiv(MulDiv(normalized.x, config.cruiseSpeed, 1000)
                                 - state.player.vx, steeringBlend, 1000),
                  y |-> state.player.vy
                        + MulDiv(MulDiv(normalized.y, config.cruiseSpeed, 1000)
                                 - state.player.vy, steeringBlend, 1000)]} })
      : steeringBlend \in {Min(1000, (config.steeringResponse * deltaMs) \div 50)} })
      : lastDirection \in {IF inputMagnitude > 0 THEN normalized
                            ELSE state.lastDirection} })
      : normalized \in {IF inputMagnitude > 0
                         THEN scale(state.input, 1000, inputMagnitude)
                         ELSE [x |-> 0, y |-> 0]} })
      : inputMagnitude \in {hypot(state.input.x, state.input.y)} })
      : config \in {getDifficultyConfig(state.difficulty)} })

-----------------------------------------------------------------------------
(* tick *)

\* tick, from the input to moveHome: the state moveHazard finds
beforeHazard(state, deltaMs, touch) ==
    The({ The({ The({ The({ moveHome(s4, deltaMs, touch)
      : s4 \in {moveExtraPlanets(s3, deltaMs, touch)} })
      : s3 \in {moveCollectible(s2, "mars", deltaMs, touch)} })
      : s2 \in {moveCollectible(s1, "earth", deltaMs, touch)} })
      : s1 \in {movePlayer(state, deltaMs)} })

\* tick, moveHazard and resolvePlanetCollisions
moveBodies(state, deltaMs, touch, collide) ==
    The({ The({ resolvePlanetCollisions(s2, collide)
      : s2 \in {moveHazard(s1, deltaMs, touch)} })
      : s1 \in {beforeHazard(state, deltaMs, touch)} })

\* decayImpacts ending the invulnerability in the first tick
decayImpactsEndingInvulnerability(state, deltaMs) ==
    [state EXCEPT
       !.bodies = eachPlanet([p \in Planets |->
                     [state.bodies[p] EXCEPT !.impactMs = Max(0, @ - deltaMs)]]),
       !.player = [@ EXCEPT !.impactMs = Max(0, @ - deltaMs)],
       !.planetChainMs = Max(0, @ - deltaMs),
       !.invulnerabilityMs = 0]

\* tick, the decay of the impact flashes, the chain timer and the invulnerability
decayImpacts(state, deltaMs) ==
    [state EXCEPT
       !.bodies = eachPlanet([p \in Planets |->
                     [state.bodies[p] EXCEPT !.impactMs = Max(0, @ - deltaMs)]]),
       !.player = [@ EXCEPT !.impactMs = Max(0, @ - deltaMs)],
       !.planetChainMs = Max(0, @ - deltaMs),
       !.invulnerabilityMs = IF @ > 0 THEN Max(0, @ - deltaMs) ELSE @]

\* advanceMission without the timeout: the time runs out, the mission stays
advanceMissionWithoutTimeout(state, deltaMs) ==
    The({ [s1 EXCEPT !.currentMission.timeLeftMs = Max(0, @ - deltaMs)]
      : s1 \in {IF state.currentMission.kind = "survive"
         THEN progressMission(state, "survive", deltaMs)
         ELSE state} })

\* advanceMission without the progress of the survive mission
advanceMissionTimeOnly(state, deltaMs) ==
    The({ IF s2.currentMission.timeLeftMs = 0
            /\ s2.currentMission.progress < s2.currentMission.target
         THEN failMission(s2)
         ELSE s2
      : s2 \in {[state EXCEPT !.currentMission.timeLeftMs = Max(0, @ - deltaMs)]} })

\* tick, the survive progress and the mission timeout
advanceMission(state, deltaMs) ==
    The({ The({ IF s2.currentMission.timeLeftMs = 0
            /\ s2.currentMission.progress < s2.currentMission.target
         THEN failMission(s2)
         ELSE s2
      : s2 \in {[s1 EXCEPT !.currentMission.timeLeftMs = Max(0, @ - deltaMs)]} })
      : s1 \in {IF state.currentMission.kind = "survive"
         THEN progressMission(state, "survive", deltaMs)
         ELSE state} })

\* decayTimers leaving the combo as it is when its timer reaches 0
decayTimersKeepingCombo(state, deltaMs) ==
    LET comboTimerMs == IF state.comboTimerMs > 0
                        THEN Max(0, state.comboTimerMs - deltaMs) ELSE state.comboTimerMs
        announcementTimerMs == IF state.announcementTimerMs > 0
                               THEN Max(0, state.announcementTimerMs - deltaMs)
                               ELSE state.announcementTimerMs
        learningFactTimerMs == IF state.learningFactTimerMs > 0
                               THEN Max(0, state.learningFactTimerMs - deltaMs)
                               ELSE state.learningFactTimerMs
    IN  [state EXCEPT
           !.comboTimerMs = comboTimerMs,
           !.announcementTimerMs = announcementTimerMs,
           !.announcement = IF state.announcementTimerMs > 0 /\ announcementTimerMs = 0
                               /\ ~state.isGameOver
                            THEN Text("", 0) ELSE @,
           !.learningFactTimerMs = learningFactTimerMs,
           !.learningFact = IF state.learningFactTimerMs > 0 /\ learningFactTimerMs = 0
                            THEN "" ELSE @]

\* tick, the combo, announcement and learning fact timers
decayTimers(state, deltaMs) ==
    LET comboTimerMs == IF state.comboTimerMs > 0
                        THEN Max(0, state.comboTimerMs - deltaMs) ELSE state.comboTimerMs
        announcementTimerMs == IF state.announcementTimerMs > 0
                               THEN Max(0, state.announcementTimerMs - deltaMs)
                               ELSE state.announcementTimerMs
        learningFactTimerMs == IF state.learningFactTimerMs > 0
                               THEN Max(0, state.learningFactTimerMs - deltaMs)
                               ELSE state.learningFactTimerMs
    IN  [state EXCEPT
           !.comboTimerMs = comboTimerMs,
           !.combo = IF state.comboTimerMs > 0 /\ comboTimerMs = 0 THEN 1 ELSE @,
           !.announcementTimerMs = announcementTimerMs,
           !.announcement = IF state.announcementTimerMs > 0 /\ announcementTimerMs = 0
                               /\ ~state.isGameOver
                            THEN Text("", 0) ELSE @,
           !.learningFactTimerMs = learningFactTimerMs,
           !.learningFact = IF state.learningFactTimerMs > 0 /\ learningFactTimerMs = 0
                            THEN "" ELSE @]

\* tick, the session reminder
\* sessionReminder raising the reminder only past the interval, not at it
sessionReminderPast(state, deltaMs) ==
    IF state.settings.sessionReminderEnabled
    THEN IF state.sessionElapsedMs + deltaMs > state.settings.sessionReminderMs
         THEN setAnnouncement(
                 [state EXCEPT !.sessionElapsedMs = @ + deltaMs,
                               !.showBreakReminder = TRUE,
                               !.isPaused = TRUE],
                 Text("Mola zamani! Su icip gozlerini dinlendirelim.", 0), 1800)
         ELSE [state EXCEPT !.sessionElapsedMs = @ + deltaMs]
    ELSE state

sessionReminder(state, deltaMs) ==
    IF state.settings.sessionReminderEnabled
    THEN IF state.sessionElapsedMs + deltaMs >= state.settings.sessionReminderMs
         THEN setAnnouncement(
                 [state EXCEPT !.sessionElapsedMs = @ + deltaMs,
                               !.showBreakReminder = TRUE,
                               !.isPaused = TRUE],
                 Text("Mola zamani! Su icip gozlerini dinlendirelim.", 0), 1800)
         ELSE [state EXCEPT !.sessionElapsedMs = @ + deltaMs]
    ELSE state

\* the deltaMs a tick works with: Math.min(48, Math.max(8, action.payload.deltaMs))
clampDelta(payloadDeltaMs) == Min(Ms(48), Max(Ms(8), payloadDeltaMs))

\* advance without the call of checkUnlocksAndBadges that ends the tick
advanceWithoutFinalCheck(state, deltaMs, touch, collide) ==
    The({ The({ The({ The({ sessionReminder(s4, deltaMs)
      : s4 \in {decayTimers(s3, deltaMs)} })
      : s3 \in {advanceMission(s2, deltaMs)} })
      : s2 \in {decayImpacts(s1, deltaMs)} })
      : s1 \in {moveBodies(state, deltaMs, touch, collide)} })

\* tick, after the early return and the clamp of deltaMs
advance(state, deltaMs, touch, collide) ==
    The({ The({ The({ The({ The({ checkUnlocksAndBadges(s5)
      : s5 \in {sessionReminder(s4, deltaMs)} })
      : s4 \in {decayTimers(s3, deltaMs)} })
      : s3 \in {advanceMission(s2, deltaMs)} })
      : s2 \in {decayImpacts(s1, deltaMs)} })
      : s1 \in {moveBodies(state, deltaMs, touch, collide)} })

\* tick without the early return
tickAlways(state, payloadDeltaMs, touch, collide) ==
    advance(state, clampDelta(payloadDeltaMs), touch, collide)

tick(state, payloadDeltaMs, touch, collide) ==
    IF state.isPaused \/ state.isGameOver \/ state.showBreakReminder THEN state
    ELSE advance(state, clampDelta(payloadDeltaMs), touch, collide)

-----------------------------------------------------------------------------
(* The other reducers *)

clampPosition(value, min, max) == Max(min, Min(max, value))

\* the bodies' coordinates are clamped the same way
setArenaSize(state, width, height) ==
    IF width < 320 \/ height < 220 THEN state
    ELSE [state EXCEPT
            !.arenaWidth = width,
            !.arenaHeight = height,
            !.player = [@ EXCEPT
               !.x = clampPosition(@, PLAYER_RADIUS * 1000, (width - PLAYER_RADIUS) * 1000),
               !.y = clampPosition(@, PLAYER_RADIUS * 1000, (height - PLAYER_RADIUS) * 1000)]]

setInput(state, vector) == [state EXCEPT !.input = vector]

\* `Zorluk ayarlandi: ${action.payload.toUpperCase()}`
DifficultyText ==
    [easy |-> "Zorluk ayarlandi: EASY", normal |-> "Zorluk ayarlandi: NORMAL",
     hard |-> "Zorluk ayarlandi: HARD"]

setDifficulty(state, difficulty) ==
    IF state.difficulty = difficulty THEN state
    ELSE setupRound([state EXCEPT !.difficulty = difficulty],
                    Text(DifficultyText[difficulty], 0))

setControlSide(state, side) == [state EXCEPT !.controlSide = side]

setSoundVolume(state, volume) ==
    [state EXCEPT !.settings.soundVolume = Max(0, Min(MAX_SOUND_VOLUME, volume))]

setVibrationEnabled(state, enabled) == [state EXCEPT !.settings.vibrationEnabled = enabled]

setSessionReminderEnabled(state, enabled) ==
    [state EXCEPT !.settings.sessionReminderEnabled = enabled,
                  !.showBreakReminder = IF ~enabled THEN FALSE ELSE @]

setSessionReminderMinutes(state, minutes) ==
    [state EXCEPT !.settings.sessionReminderMs = Ms(Max(10, Min(45, minutes)) * 60 * 1000)]

\* dismissBreakReminder resuming whatever the state of the round
dismissBreakReminderResumes(state) ==
    setAnnouncement(
        [state EXCEPT !.showBreakReminder = FALSE, !.sessionElapsedMs = 0,
                      !.isPaused = FALSE, !.isGameOver = FALSE],
        Text("Mola tamam! Devam ediyoruz.", 0), 1200)

\* dismissBreakReminder leaving the elapsed time of the session as it is
dismissBreakReminderKeepingTime(state) ==
    IF ~state.isGameOver
    THEN setAnnouncement(
            [state EXCEPT !.showBreakReminder = FALSE, !.isPaused = FALSE],
            Text("Mola tamam! Devam ediyoruz.", 0), 1200)
    ELSE [state EXCEPT !.showBreakReminder = FALSE]

dismissBreakReminder(state) ==
    IF ~state.isGameOver
    THEN setAnnouncement(
            [state EXCEPT !.showBreakReminder = FALSE, !.sessionElapsedMs = 0,
                          !.isPaused = FALSE],
            Text("Mola tamam! Devam ediyoruz.", 0), 1200)
    ELSE [state EXCEPT !.showBreakReminder = FALSE, !.sessionElapsedMs = 0]

\* selectRocketSkin without the test for the skin being unlocked
selectRocketSkinAny(state, skin) == [state EXCEPT !.selectedSkin = skin]

selectRocketSkin(state, skin) ==
    IF ~includes(state.unlockedSkins, skin) THEN state
    ELSE [state EXCEPT !.selectedSkin = skin]

nudgePlayer(state, vector) ==
    IF state.isGameOver \/ state.isPaused THEN state
    ELSE The({ The({ The({ IF tapSpeed > config.maxSpeed /\ tapSpeed > 0
              THEN [state EXCEPT
                      !.player = [@ EXCEPT
                         !.vx = MulDiv(v.x, config.maxSpeed, tapSpeed),
                         !.vy = MulDiv(v.y, config.maxSpeed, tapSpeed)]]
              ELSE [state EXCEPT !.player = [@ EXCEPT !.vx = v.x, !.vy = v.y]]
           : tapSpeed \in {hypot(v.x, v.y)} })
           : v \in {[x |-> state.player.vx + MulDiv(vector.x, 11, 10),
                      y |-> state.player.vy + MulDiv(vector.y, 11, 10)]} })
           : config \in {getDifficultyConfig(state.difficulty)} })

stopPlayer(state) ==
    [state EXCEPT !.player = [@ EXCEPT !.vx = 0, !.vy = 0],
                  !.lastDirection = [x |-> 0, y |-> 0]]

resetPlayerPosition(state) ==
    setAnnouncement(
        [state EXCEPT
           !.player = [@ EXCEPT !.x = (state.arenaWidth * 1000) \div 2,
                                !.y = (state.arenaHeight * 1000) \div 2,
                                !.vx = 0, !.vy = 0],
           !.input = [x |-> 0, y |-> 0],
           !.lastDirection = [x |-> 0, y |-> 0],
           !.combo = 1,
           !.comboTimerMs = 0],
        Text("Roket merkeze alindi.", 0), 1000)

\* togglePause without its early return
togglePauseAlways(state) ==
    setAnnouncement([state EXCEPT !.isPaused = ~state.isPaused],
                    Text(IF ~state.isPaused THEN "Duraklatildi" ELSE "Devam!", 0), 700)

togglePause(state) ==
    IF state.isGameOver \/ state.showBreakReminder THEN state
    ELSE setAnnouncement([state EXCEPT !.isPaused = ~state.isPaused],
                         Text(IF ~state.isPaused THEN "Duraklatildi" ELSE "Devam!", 0), 700)

\* restartGame constructing the state anew, only the high score kept
restartGameFromScratch(state) == createInitialState(state.highScore)

restartGame(state) == setupRound(state, Text("Yeni oyun basladi!", 0))

-----------------------------------------------------------------------------
(* Bounds and inputs *)

\* the number of operations applied after the initial state
MaxSteps == 2

\* what loadStoredHighScore finds in the storage
StoredHighScores == {0, 40}

\* action.payload.deltaMs of a tick: the driver's 1000/60 ms, and 100 ms
DeltaPayloads == {50, 300}

Vectors == {[x |-> 0, y |-> 0], [x |-> 1000, y |-> 0], [x |-> 0, y |-> -1000]}

ArenaSizes == {[width |-> 300, height |-> 400], [width |-> 320, height |-> 220]}

SoundVolumes == {30, 90}

ReminderMinutes == {5, 30}

\* the bodies whose pickup test a tick evaluates
testable(state) ==
    IF state.isPaused \/ state.isGameOver \/ state.showBreakReminder THEN {}
    ELSE {p \in Planets : state.bodies[p].cooldownMs = 0}

\* the bodies that can be within the hit distance of the player during a
\* tick, on cooldown or not
within(state) ==
    IF state.isPaused \/ state.isGameOver \/ state.showBreakReminder THEN {}
    ELSE Planets

\* the bodies within the hit distance: none, one, all of those whose test is
\* evaluated, or all
TouchSets(state) ==
    {{}} \cup {{p} : p \in within(state)} \cup {testable(state), within(state)}

\* the outcomes of the collision pass: no overlap, or the two core planets
CollideSets(state) ==
    IF state.isPaused \/ state.isGameOver \/ state.showBreakReminder THEN {{}}
    ELSE {{}, {"earth", "mars"}}

-----------------------------------------------------------------------------
(* Reachable states the exploration starts from: each is computed from the   *)
(* constructed state by the reducers themselves.                            *)

\* const fixedStep = 1000 / 60: the deltaMs of every tick of the frame loop
fixedStep == 50

ready(state, id) == state.bodies[id].cooldownMs = 0

hazardReady(state) == state.invulnerabilityMs = 0 /\ ready(state, "jupiter")

lastLife(state) ==
    hazardReady(state) /\ state.lives = 1 /\ state.shieldCharges = 0
    /\ ~state.secondChanceUsed

secondChance(state) == state.secondChanceUsed

finalLife(state) ==
    hazardReady(state) /\ state.lives = 1 /\ state.shieldCharges = 0
    /\ state.secondChanceUsed

surviveNearlyDone(state) ==
    state.currentMission.kind = "survive"
    /\ state.currentMission.progress + fixedStep >= state.currentMission.target

comboThree(state) == state.combo = 3 /\ ready(state, "earth")

streak(state) == state.combo = 9 /\ state.shieldCharges = 5 /\ ready(state, "earth")

\* the hazard can be touched again while the player is still invulnerable
hazardBack(state) == state.invulnerabilityMs > 0 /\ ready(state, "jupiter")

\* half a minute of play is left before the break reminder
breakNear(state) ==
    state.sessionElapsedMs + Ms(30000) >= state.settings.sessionReminderMs

\* the next tick of the frame loop raises the break reminder
breakDue(state) ==
    state.sessionElapsedMs + fixedStep >= state.settings.sessionReminderMs

\* the state a replay of the frame loop stops at
reached(goal, state) ==
    CASE goal = "lastLife" -> lastLife(state)
      [] goal = "secondChance" -> secondChance(state)
      [] goal = "finalLife" -> finalLife(state)
      [] goal = "surviveNearlyDone" -> surviveNearlyDone(state)
      [] goal = "comboThree" -> comboThree(state)
      [] goal = "streak" -> streak(state)
      [] goal = "sunReady" -> ready(state, "sun")
      [] goal = "hazardBack" -> hazardBack(state)
      [] goal = "breakNear" -> breakNear(state)
      [] goal = "breakDue" -> breakDue(state)
      \* the player is as fast as the wind threshold
      [] goal = "windMode" -> state.windMode
      \* the next contact with the hazard is a hit that leaves lives
      [] goal = "shieldsGone" ->
            hazardReady(state) /\ state.shieldCharges = 0 /\ state.lives > 1
      \* the next tick of the frame loop brings the mission's time to 0
      [] goal = "missionDue" -> state.currentMission.timeLeftMs <= fixedStep
      \* the survive mission completes within two seconds
      [] goal = "surviveSoon" ->
            state.currentMission.kind = "survive"
            /\ state.currentMission.progress + Ms(2000) >= state.currentMission.target
      \* the score that unlocks the neon skin
      [] goal = "neonScore" -> state.score >= 160
      \* the next tick of the frame loop ends the cooldown of the earth
      [] goal = "earthBack" ->
            state.bodies["earth"].cooldownMs > 0
            /\ state.bodies["earth"].cooldownMs <= fixedStep
      \* the next tick of the frame loop brings the timer of a combo to 0
      [] goal = "comboEnding" ->
            state.combo > 1 /\ state.comboTimerMs > 0 /\ state.comboTimerMs <= fixedStep
      \* the next tick of the frame loop ends the third minute of the session
      [] goal = "marathonDue" ->
            state.sessionElapsedMs + fixedStep >= Ms(3 * 60 * 1000)
      \* the hazard can be touched again while the invulnerability of a hit lasts
      [] goal = "hitLately" ->
            state.eventSignal["hit"] > 0 /\ state.shieldCharges = 0 /\ hazardBack(state)

\* one tick of the frame loop with the tests of `touch` succeeding, unless the
\* goal is reached
tickUnless(state, touch, goal) ==
    The({ IF reached(goal, s) THEN s ELSE tick(s, fixedStep, touch, {})
      : s \in {state} })

RECURSIVE ticksUntil(_, _, _, _)
\* tickUnless, 2^k times: the state where the goal is first reached within 2^k ticks
ticksUntil(state, touch, goal, k) ==
    IF k = 0 THEN tickUnless(state, touch, goal)
    ELSE The({ IF reached(goal, half) THEN half ELSE ticksUntil(half, touch, goal, k - 1)
           : half \in {ticksUntil(state, touch, goal, k - 1)} })

\* the state after construction, nothing stored
Fresh == createInitialState(0)

\* the hazard has taken the shields and all lives but one
AtLastLife == ticksUntil(Fresh, {"jupiter"}, "lastLife", 10)

AfterSecondChance == ticksUntil(AtLastLife, {"jupiter"}, "secondChance", 0)

\* the second chance is spent, its shield and its invulnerability too
AtFinalLife == ticksUntil(AfterSecondChance, {"jupiter"}, "finalLife", 9)

\* the fourth round of the session: its mission is the survive mission
SurviveRound == restartGame(restartGame(restartGame(Fresh)))

SurviveRoundAtLastLife == ticksUntil(SurviveRound, {"jupiter"}, "lastLife", 10)

\* at the last life, one tick before the survive mission completes
SurviveAtLastLife == ticksUntil(SurviveRoundAtLastLife, {}, "surviveNearlyDone", 11)

\* the survive round at the last life, its second chance and the shield of
\* it spent, one tick before the survive mission completes
SurviveAtFinalLife ==
    ticksUntil(
        ticksUntil(
            ticksUntil(SurviveRoundAtLastLife, {"jupiter"}, "secondChance", 0),
            {"jupiter"}, "finalLife", 9),
        {}, "surviveNearlyDone", 11)

\* two pickups of the earth in a row, the third one due
ComboThree == ticksUntil(Fresh, {"earth"}, "comboThree", 7)

\* a streak of pickups of the core planets and the sun
Streak == ticksUntil(Fresh, {"earth", "mars", "sun"}, "streak", 9)

\* ten minutes of play without a contact, less half a minute, after the
\* shortest reminder interval is chosen in the settings
nearBreak(start) ==
    ticksUntil(setSessionReminderMinutes(start, 10), {}, "breakNear", 16)

\* one tick before the break reminder
beforeBreak(near) == ticksUntil(near, {}, "breakDue", 11)

\* the hazard takes all lives but the last in the half minute before the
\* break: at the last life, the second chance spent, one tick before the
\* break reminder
beforeBreakAtFinalLife(near) ==
    ticksUntil(ticksUntil(near, {"jupiter"}, "finalLife", 11), {}, "breakDue", 11)

\* the states of a session that started with `start`, one tick before its
\* break reminder
sessionSnapshots(start) ==
    The({ {beforeBreak(near), beforeBreakAtFinalLife(near)}
      : near \in {nearBreak(start)} })

\* a shield has taken a contact with the hazard, whose cooldown has run out
\* before the invulnerability has
Invulnerable == ticksUntil(Fresh, {"jupiter"}, "hazardBack", 7)

\* the hazard has taken the shields and no life yet
ShieldsGone == ticksUntil(Fresh, {"jupiter"}, "shieldsGone", 9)

\* after the streak, the sun is back: its pickup completes the sun mission
SunDue == ticksUntil(Streak, {}, "sunReady", 7)

\* after the streak, nothing is picked up until the sun mission is one tick
\* before its timeout
MissionDue == ticksUntil(SunDue, {}, "missionDue", 12)

\* the survive round until two seconds before its mission completes, then
\* four pickups of the earth in a row (16 + 32 + 48 + 64 points): at combo 5
\* and 160 points, one tick before the survive mission completes
SurviveAtCombo ==
    ticksUntil(
        ticksUntil(
            ticksUntil(SurviveRound, {}, "surviveSoon", 11),
            {"earth"}, "neonScore", 7),
        {}, "surviveNearlyDone", 7)

\* a pickup of the earth, the player staying on it: one tick before the end
\* of its cooldown
EarthBack == ticksUntil(Fresh, {"earth"}, "earthBack", 6)

\* nothing is picked up after two pickups: one tick before the combo is lost
ComboEnding == ticksUntil(ComboThree, {}, "comboEnding", 8)

\* the session of the streak, one tick before its third minute ends
MarathonDue == ticksUntil(MissionDue, {}, "marathonDue", 14)

\* the player steers to the right until the wind threshold is passed
Cruising == ticksUntil(setInput(Fresh, [x |-> 1000, y |-> 0]), {}, "windMode", 5)

\* the hazard has taken a life, and its cooldown has run out before the
\* invulnerability of the hit has
HitLately == ticksUntil(ShieldsGone, {"jupiter"}, "hitLately", 7)

\* the survive round of the other difficulties
SurviveRounds ==
    {restartGame(restartGame(setDifficulty(Fresh, d))) : d \in Difficulties \ {"normal"}}

Snapshots ==
    {createInitialState(h) : h \in StoredHighScores}
    \cup {AtLastLife, AtFinalLife, SurviveAtLastLife, ComboThree, Streak, SunDue,
          Invulnerable, ShieldsGone, MissionDue, SurviveAtCombo, EarthBack,
          ComboEnding, MarathonDue, Cruising, SurviveAtFinalLife, HitLately}
    \cup SurviveRounds

-----------------------------------------------------------------------------
(* The state machine *)

NoArg == [x |-> 0, y |-> 0]

\* a dispatched action with its payload
Send(op, next, deltaMs, touch, payload) ==
    /\ steps < MaxSteps
    /\ game' = next
    /\ prev' = game
    /\ last' = [op |-> op, deltaMs |-> deltaMs, touch |-> touch, payload |-> payload]
    /\ steps' = steps + 1

\* a dispatched action without a payload, and the tick
Do(op, next, deltaMs, touch) == Send(op, next, deltaMs, touch, NoArg)

Init ==
    /\ game \in Snapshots
    /\ prev = game
    /\ last = [op |-> "init", deltaMs |-> 0, touch |-> {}, payload |-> NoArg]
    /\ steps = 0

Tick ==
    \E d \in DeltaPayloads, touch \in TouchSets(game), collide \in CollideSets(game) :
        Do("tick", tick(game, d, touch, collide), d, touch)

SetArenaSize == \E a \in ArenaSizes : Send("setArenaSize", setArenaSize(game, a.width, a.height), 0, {}, a)

SetInput == \E v \in Vectors : Send("setInput", setInput(game, v), 0, {}, v)

SetDifficulty == \E d \in Difficulties : Send("setDifficulty", setDifficulty(game, d), 0, {}, d)

SetControlSide == \E c \in ControlSides : Send("setControlSide", setControlSide(game, c), 0, {}, c)

SetSoundVolume == \E v \in SoundVolumes : Send("setSoundVolume", setSoundVolume(game, v), 0, {}, v)

SetVibrationEnabled == \E b \in BOOLEAN : Send("setVibrationEnabled", setVibrationEnabled(game, b), 0, {}, b)

SetSessionReminderEnabled ==
    \E b \in BOOLEAN : Send("setSessionReminderEnabled", setSessionReminderEnabled(game, b), 0, {}, b)

SetSessionReminderMinutes ==
    \E m \in ReminderMinutes : Send("setSessionReminderMinutes", setSessionReminderMinutes(game, m), 0, {}, m)

DismissBreakReminder == Do("dismissBreakReminder", dismissBreakReminder(game), 0, {})

SelectRocketSkin == \E k \in RocketSkins : Send("selectRocketSkin", selectRocketSkin(game, k), 0, {}, k)

NudgePlayer == \E v \in Vectors : Send("nudgePlayer", nudgePlayer(game, v), 0, {}, v)

StopPlayer == Do("stopPlayer", stopPlayer(game), 0, {})

ResetPlayerPosition == Do("resetPlayerPosition", resetPlayerPosition(game), 0, {})

TogglePause == Do("togglePause", togglePause(game), 0, {})

RestartGame == Do("restartGame", restartGame(game), 0, {})

Next ==
    \/ Tick
    \/ SetArenaSize
    \/ SetInput
    \/ SetDifficulty
    \/ SetControlSide
    \/ SetSoundVolume
    \/ SetVibrationEnabled
    \/ SetSessionReminderEnabled
    \/ SetSessionReminderMinutes
    \/ DismissBreakReminder
    \/ SelectRocketSkin
    \/ NudgePlayer
    \/ StopPlayer
    \/ ResetPlayerPosition
    \/ TogglePause
    \/ RestartGame

Spec == Init /\ [][Next]_vars

\* a session one tick before its break reminder
SessionInit ==
    /\ game \in sessionSnapshots(Fresh)
    /\ prev = game
    /\ last = [op |-> "init", deltaMs |-> 0, touch |-> {}, payload |-> NoArg]
    /\ steps = 0

SessionSpec == SessionInit /\ [][Next]_vars

\* the vectors from the centre of the first body to the centre of the second
PairOffsets ==
    {[x |-> 0, y |-> 0], [x |-> 20000, y |-> 0], [x |-> 12000, y |-> 16000],
     [x |-> -12000, y |-> 16000], [x |-> 10000, y |-> -10000],
     [x |-> -7000, y |-> -3000], [x |-> 29000, y |-> 0], [x |-> 0, y |-> 40000]}

PairVelocities ==
    {[x |-> 0, y |-> 0], [x |-> 1500, y |-> 0], [x |-> -1500, y |-> 700],
     [x |-> 0, y |-> -2000]}

\* a moving planet of the pass: the earth (radius 16) or mars (radius 13)
planetAt(position, velocity, radius, visible, impactMs) ==
    [x |-> position.x, y |-> position.y, vx |-> velocity.x, vy |-> velocity.y,
     radius |-> radius, visible |-> visible, impactMs |-> impactMs]

\* the earth and mars as resolvePlanetCollisions hands them to resolvePlanetPair
PlanetPairs ==
    {[first |-> planetAt([x |-> 480000, y |-> 270000], v1, 16, visible1, 0),
      second |-> planetAt([x |-> 480000 + offset.x, y |-> 270000 + offset.y],
                          v2, 13, visible2, impactMs)]
       : offset \in PairOffsets, v1 \in PairVelocities, v2 \in PairVelocities,
         visible1 \in BOOLEAN, visible2 \in BOOLEAN, impactMs \in {0, Ms(420)}}

PairInit ==
    /\ game \in PlanetPairs
    /\ prev = game
    /\ last = [op |-> "init", deltaMs |-> 0, touch |-> {}, payload |-> NoArg]
    /\ steps = 0

ResolvePlanetPair == Do("resolvePlanetPair", resolvePlanetPair(game), 0, {})

PairSpec == PairInit /\ [][ResolvePlanetPair]_vars

\* the centre of `entity` is inside [radius, width - radius] x [radius, height - radius]
insideArena(entity, width, height) ==
    /\ entity.x >= entity.radius * 1000
    /\ entity.x <= (width - entity.radius) * 1000
    /\ entity.y >= entity.radius * 1000
    /\ entity.y <= (height - entity.radius) * 1000

\* where the earth is found: at the left wall, in the top left corner, in the
\* middle of the arena, in the bottom right corner
WallPositions ==
    {[x |-> 16000, y |-> 270000], [x |-> 16000, y |-> 16000],
     [x |-> 480000, y |-> 270000], [x |-> 944000, y |-> 524000]}

\* the earth and mars inside the default arena, both visible
WallPairs ==
    {pair \in
        {[first |-> planetAt(position, v1, 16, TRUE, 0),
          second |-> planetAt([x |-> position.x + offset.x, y |-> position.y + offset.y],
                              v2, 13, TRUE, 0)]
           : position \in WallPositions, offset \in PairOffsets,
             v1 \in PairVelocities, v2 \in PairVelocities} :
        /\ insideArena(pair.first, DEFAULT_ARENA_WIDTH, DEFAULT_ARENA_HEIGHT)
        /\ insideArena(pair.second, DEFAULT_ARENA_WIDTH, DEFAULT_ARENA_HEIGHT)}

\* tick, the motion of the earth and of mars and the collision pass on them:
\* moveCollectible calls bounceInsideArena with frameScale * levelBoost, 0.9 at
\* level 1 in a tick of the frame loop (45 / 50), and the default damping of
\* 1; the velocities of PairVelocities are below planetMaxSpeed
moveThenCollide(pair) ==
    resolvePlanetPair(
        [first |-> bounceInsideArena(pair.first, pair.first.radius,
                       DEFAULT_ARENA_WIDTH, DEFAULT_ARENA_HEIGHT, 45, 1000),
         second |-> bounceInsideArena(pair.second, pair.second.radius,
                       DEFAULT_ARENA_WIDTH, DEFAULT_ARENA_HEIGHT, 45, 1000)])

ArenaInit ==
    /\ game \in WallPairs
    /\ prev = game
    /\ last = [op |-> "init", deltaMs |-> 0, touch |-> {}, payload |-> NoArg]
    /\ steps = 0

MoveThenCollide == Do("moveThenCollide", moveThenCollide(game), fixedStep, {})

ArenaSpec == ArenaInit /\ [][MoveThenCollide]_vars

\* the frames of a run of the frame loop
MaxFrames == 4

\* now - lastFrameTime of a frame, before the clamp: 0, 6.67 ms, 1000/60 ms,
\* 23.33 ms, 49.67 ms, 50 ms and 100 ms; the clock does not go back
FrameDeltas == {0, 20, 50, 70, 149, 150, 300}

\* the frame loop effect of App when it starts: lastFrameTime (counted from
\* the start of the effect), accumulator and the store; `dispatched` counts
\* the ticks the last frame dispatched
createFrameLoop(state) ==
    [lastFrameTime |-> 0, accumulator |-> 0, dispatched |-> 0, store |-> state]

RECURSIVE dispatchTicks(_)
\* while (accumulator >= fixedStep) { dispatch(tick({ deltaMs: fixedStep })) ... }
dispatchTicks(loop) ==
    IF loop.accumulator >= fixedStep
    THEN dispatchTicks([loop EXCEPT !.store = tick(@, fixedStep, {}, {}),
                                    !.accumulator = @ - fixedStep,
                                    !.dispatched = @ + 1])
    ELSE loop

\* frame without the clamp of the frame delta
frameUnclamped(loop, now) ==
    The({ dispatchTicks([loop EXCEPT !.lastFrameTime = now,
                                     !.accumulator = @ + deltaMs,
                                     !.dispatched = 0])
      : deltaMs \in {now - loop.lastFrameTime} })

\* const frame = (now: number) => { ... }
frame(loop, now) ==
    The({ dispatchTicks([loop EXCEPT !.lastFrameTime = now,
                                     !.accumulator = @ + deltaMs,
                                     !.dispatched = 0])
      : deltaMs \in {Min(Ms(50), now - loop.lastFrameTime)} })

FrameInit ==
    /\ game = createFrameLoop(Fresh)
    /\ prev = game
    /\ last = [op |-> "init", deltaMs |-> 0, touch |-> {}, payload |-> NoArg]
    /\ steps = 0

\* a frame the browser calls, `d` after the frame before
Frame ==
    /\ steps < MaxFrames
    /\ \E d \in FrameDeltas :
          /\ game' = frame(game, game.lastFrameTime + d)
          /\ prev' = game
          /\ last' = [op |-> "frame", deltaMs |-> d, touch |-> {}, payload |-> NoArg]
          /\ steps' = steps + 1

FrameSpec == FrameInit /\ [][Frame]_vars

\* action.payload.deltaMs of the ticks that end a mission: 0, the driver's
\* 1000/60 ms, and 100 ms
MissionDeltas == {0, 50, 300}

\* a round of the snapshots, ticked until the mission it began with is replaced
MissionInit ==
    /\ game \in Snapshots
    /\ prev = game
    /\ last = [op |-> "init", deltaMs |-> 0, touch |-> {}, payload |-> NoArg]
    /\ steps = 0

\* a tick that gets past its early return, nothing touched: the frame loop's
\* tick, and in the last 100 ms of the mission a tick of any payload
AppliedTick ==
    /\ last.op = "init" \/ game.currentMission.id = prev.currentMission.id
    /\ ~(game.isPaused \/ game.isGameOver \/ game.showBreakReminder)
    /\ \E d \in (IF game.currentMission.timeLeftMs <= Ms(100)
                  THEN MissionDeltas ELSE {fixedStep}) :
          /\ game' = tick(game, d, {}, {})
          /\ prev' = game
          /\ last' = [op |-> "tick", deltaMs |-> d, touch |-> {}, payload |-> NoArg]
          /\ steps' = steps

\* the frame loop requests the next frame at the end of each frame: ticks
\* keep coming while the game runs
MissionSpec == MissionInit /\ [][AppliedTick]_vars /\ WF_vars(AppliedTick)

-----------------------------------------------------------------------------
(* The properties.  `prev` is the state the last operation was applied to,   *)
(* `last` the operation with its inputs, `game` its result.                  *)

EventKeys == {"collect", "hit", "mission", "badge", "level", "unlock", "shield"}

\* the last operation was a tick that got past its early return
ticked ==
    last.op = "tick" /\ ~(prev.isPaused \/ prev.isGameOver \/ prev.showBreakReminder)

\* the last operation was a round reset: restartGame, or setDifficulty with
\* another key than the current one
roundReset ==
    last.op = "restartGame"
    \/ (last.op = "setDifficulty" /\ game.difficulty # prev.difficulty)

\* the state the hazard step of the last tick found
atHazard == beforeHazard(prev, clampDelta(last.deltaMs), last.touch)

\* the hazard step of the last tick found the player touching the hazard,
\* without shield and invulnerability, at the last life
lastLifeContact ==
    /\ ticked
    /\ "jupiter" \in last.touch
    /\ ready(atHazard, "jupiter")
    /\ atHazard.shieldCharges = 0
    /\ atHazard.invulnerabilityMs = 0
    /\ atHazard.lives = 1

\* the multiples of levelScoreStep below the score of a state
stepsOfScore(state) == state.score \div getDifficultyConfig(state.difficulty).levelScoreStep

\* C1: in every reachable state 1 <= combo <= 9, lives >= 0,
\* 0 <= shieldCharges <= 5 and 0 <= currentMission.progress <= currentMission.target
C1_Ranges ==
    /\ game.combo \in 1..9
    /\ game.lives >= 0
    /\ game.shieldCharges \in 0..5
    /\ game.currentMission.progress >= 0
    /\ game.currentMission.progress <= game.currentMission.target

\* C1, its case: a pickup at combo 9 and five shield charges leaves both at their cap
C1_PickupAtTheCaps ==
    /\ ticked
    /\ prev.combo = 9 /\ prev.shieldCharges = 5
    /\ game.eventSignal.collect > prev.eventSignal.collect
    /\ game.combo = 9 /\ game.shieldCharges = 5

\* C2: highScore never decreases under a tick or a command, restartGame and
\* setDifficulty included, and in every reachable state highScore >= score
C2_HighScoreIsRunningMaximum ==
    /\ game.highScore >= game.score
    /\ game.highScore >= prev.highScore

\* C2, its case: a tick lifts the score above a stored high score, which follows it
C2_HighScoreRaised ==
    /\ ticked
    /\ prev.highScore > prev.score
    /\ game.score > prev.highScore
    /\ game.highScore = game.score

C4_SecondChanceLeavesOneLife ==
    (lastLifeContact /\ ~atHazard.secondChanceUsed)
    => /\ game.secondChanceUsed
       /\ game.lives = 1
       /\ ~game.isGameOver
       /\ game.eventSignal["shield"] > prev.eventSignal["shield"]

\* C4 as amended: that contact ends the tick with secondChanceUsed, no game
\* over, the shield counter incremented by one, and lives = 1, or lives = 2
\* when a mission completes later in that tick
C4_SecondChance ==
    (lastLifeContact /\ ~atHazard.secondChanceUsed)
    => /\ game.secondChanceUsed
       /\ ~game.isGameOver
       /\ game.eventSignal["shield"] = prev.eventSignal["shield"] + 1
       /\ game.lives = IF game.missionsCompleted > atHazard.missionsCompleted
                       THEN 2 ELSE 1

\* C4, its case: the second chance in the tick that completes the survive mission
C4_SecondChanceAndMission ==
    /\ lastLifeContact /\ ~atHazard.secondChanceUsed
    /\ game.secondChanceUsed
    /\ game.missionsCompleted > atHazard.missionsCompleted
    /\ game.lives = 2

\* C5: a hazard contact without shield and invulnerability at the last life,
\* the second chance used, ends the tick with isGameOver, isPaused, the
\* player's velocity (0,0) and the input (0,0)
C5_GameOver ==
    (lastLifeContact /\ atHazard.secondChanceUsed)
    => /\ game.isGameOver
       /\ game.isPaused
       /\ game.player.vx = 0 /\ game.player.vy = 0
       /\ game.input = [x |-> 0, y |-> 0]

\* C5, its case: the game ends while the player steers and moves
C5_GameOverWhileMoving ==
    /\ lastLifeContact /\ atHazard.secondChanceUsed
    /\ prev.input # [x |-> 0, y |-> 0]
    /\ atHazard.player.vx # 0
    /\ game.isGameOver

\* C6: once isGameOver is true it stays true under every tick and every
\* command other than a round reset
C6_GameOverIsTerminal ==
    (prev.isGameOver /\ ~roundReset) => game.isGameOver

\* C6, its case: the break reminder is dismissed after the game is over
C6_DismissAfterGameOver ==
    /\ last.op = "dismissBreakReminder"
    /\ prev.isGameOver
    /\ game.isGameOver /\ game.isPaused

\* C7: restartGame yields score 0, the base lives of the current difficulty,
\* level 1, no pause and no game over, and leaves highScore, unlockedSkins,
\* selectedSkin, badges, settings and the arena size as they were
C7_RestartGame ==
    last.op = "restartGame"
    => /\ game.score = 0
       /\ game.lives = getDifficultyConfig(prev.difficulty).baseLives
       /\ game.level = 1
       /\ ~game.isPaused
       /\ ~game.isGameOver
       /\ game.highScore = prev.highScore
       /\ game.unlockedSkins = prev.unlockedSkins
       /\ game.selectedSkin = prev.selectedSkin
       /\ game.badges = prev.badges
       /\ game.settings = prev.settings
       /\ game.arenaWidth = prev.arenaWidth
       /\ game.arenaHeight = prev.arenaHeight

\* C7, its case: a restart of a round with a score, unlocked skins, badges
\* and other lives than the base lives
C7_RestartAfterProgress ==
    /\ last.op = "restartGame"
    /\ prev.score > 0 /\ prev.highScore > 0
    /\ Len(prev.unlockedSkins) > 1 /\ Len(prev.badges) > 0
    /\ prev.lives # getDifficultyConfig(prev.difficulty).baseLives
    /\ game.score = 0 /\ game.highScore = prev.highScore

C9_LevelUpByOne ==
    (ticked /\ stepsOfScore(game) > stepsOfScore(prev))
    => /\ game.level = prev.level + 1
       /\ game.eventSignal["level"] = prev.eventSignal["level"] + 1

\* C9 as amended: the level is floor(score / levelScoreStep) + 1, so a tick
\* raises it by the number of multiples the score crosses; every scoring call
\* that raises the level counts one level-up and grants one shield charge
\* (capped at 5), so one pickup crossing several multiples grants one charge
C9_LevelFollowsScore ==
    /\ game.level = stepsOfScore(game) + 1
    /\ (ticked /\ stepsOfScore(game) > stepsOfScore(prev))
       => /\ game.level - prev.level = stepsOfScore(game) - stepsOfScore(prev)
          /\ game.eventSignal["level"] - prev.eventSignal["level"] >= 1
          /\ game.eventSignal["level"] - prev.eventSignal["level"]
                <= game.level - prev.level
          /\ game.eventSignal["level"] - prev.eventSignal["level"]
                <= (game.eventSignal["collect"] - prev.eventSignal["collect"])
                   + (game.eventSignal["mission"] - prev.eventSignal["mission"])
    /\ \A id \in Planets \ {"jupiter", "venus"} :
          (/\ ticked /\ last.touch = {id}
           /\ game.missionsCompleted = prev.missionsCompleted
           /\ stepsOfScore(game) > stepsOfScore(prev))
          => /\ game.eventSignal["level"] = prev.eventSignal["level"] + 1
             /\ game.shieldCharges = Min(5, prev.shieldCharges + 1)

\* C9, its case: one pickup of the sun crosses two multiples: two levels, one charge
C9_TwoLevelsOneCharge ==
    /\ ticked /\ last.touch = {"sun"}
    /\ game.missionsCompleted = prev.missionsCompleted
    /\ game.level = prev.level + 2
    /\ game.eventSignal["level"] = prev.eventSignal["level"] + 1
    /\ game.shieldCharges = prev.shieldCharges + 1

\* C10: a tick applied while isPaused, isGameOver or showBreakReminder is
\* true changes no field of the state
C10_TickIsNoOpWhenStopped ==
    (last.op = "tick" /\ (prev.isPaused \/ prev.isGameOver \/ prev.showBreakReminder))
    => game = prev

\* C10, its case: a tick after the tick that ended the game
C10_TickAfterGameOver ==
    /\ last.op = "tick"
    /\ prev.isGameOver
    /\ game = prev

\* the last operation was applied while isPaused or isGameOver held
stopped == prev.isPaused \/ prev.isGameOver

\* C11: while isPaused or isGameOver holds, nudgePlayer, stopPlayer and
\* resetPlayerPosition leave the state unchanged
C11_MovementCommandsAreNoOpsWhenStopped ==
    (last.op \in {"nudgePlayer", "stopPlayer", "resetPlayerPosition"} /\ stopped)
    => game = prev

\* C12: unlockSkin for a skin already unlocked and grantBadge for a badge
\* already held leave the whole state unchanged, and checkUnlocksAndBadges
\* run again on its own result changes nothing
C12_GrantingIsIdempotent ==
    /\ \A i \in 1..Len(game.unlockedSkins) :
          unlockSkin(game, game.unlockedSkins[i], "again") = game
    /\ \A i \in 1..Len(game.badges) :
          grantBadge(game, game.badges[i], "again") = game
    /\ checkUnlocksAndBadges(checkUnlocksAndBadges(game)) = checkUnlocksAndBadges(game)
    /\ ticked => checkUnlocksAndBadges(game) = game

\* C12, its case: a tick runs checkUnlocksAndBadges in a state whose score
\* and missions already earned a skin and a badge, and grants nothing anew
C12_GrantedBefore ==
    /\ ticked
    /\ prev.score >= 160 /\ includes(prev.unlockedSkins, "neon")
    /\ prev.missionsCompleted >= 1 /\ includes(prev.badges, "mission-starter")
    /\ game.unlockedSkins = prev.unlockedSkins
    /\ game.badges = prev.badges
    /\ game.eventSignal["unlock"] = prev.eventSignal["unlock"]
    /\ game.eventSignal["badge"] = prev.eventSignal["badge"]

\* the list `before` is the beginning of the list `after`
startsWith(after, before) ==
    Len(before) <= Len(after) /\ SubSeq(after, 1, Len(before)) = before

\* no element occurs twice in the list
distinct(seq) == \A i, j \in 1..Len(seq) : seq[i] = seq[j] => i = j

\* C13: unlockedSkins and badges only ever grow at their end under every
\* tick and command, restartGame and setDifficulty included; no element
\* occurs twice and 'classic' is always unlocked
C13_AppendOnly ==
    /\ startsWith(game.unlockedSkins, prev.unlockedSkins)
    /\ startsWith(game.badges, prev.badges)
    /\ distinct(game.unlockedSkins)
    /\ distinct(game.badges)
    /\ includes(game.unlockedSkins, "classic")

\* C13, its case: a tick unlocks a skin, the skins and badges held before stay
C13_SkinAppended ==
    /\ ticked
    /\ Len(prev.badges) > 0
    /\ Len(game.unlockedSkins) = Len(prev.unlockedSkins) + 1
    /\ startsWith(game.unlockedSkins, prev.unlockedSkins)
    /\ startsWith(game.badges, prev.badges)

\* C14: in every reachable state selectedSkin is one of unlockedSkins;
\* selectRocketSkin with a skin that is not unlocked leaves the state
\* unchanged, with an unlocked one it changes selectedSkin alone
C14_SelectedSkinIsUnlocked ==
    /\ includes(game.unlockedSkins, game.selectedSkin)
    /\ last.op = "selectRocketSkin"
       => game = IF includes(prev.unlockedSkins, last.payload)
                 THEN [prev EXCEPT !.selectedSkin = last.payload]
                 ELSE prev

\* C14, its case: a locked skin is selected while another skin than the
\* default one is unlocked
C14_LockedSkinRefused ==
    /\ last.op = "selectRocketSkin"
    /\ Len(prev.unlockedSkins) > 1
    /\ ~includes(prev.unlockedSkins, last.payload)
    /\ game = prev

\* C15: in every reachable state isGameOver implies isPaused and
\* showBreakReminder implies isPaused; togglePause leaves the state unchanged
\* while isGameOver or showBreakReminder holds
C15_OverlaysStayPaused ==
    /\ game.isGameOver => game.isPaused
    /\ game.showBreakReminder => game.isPaused
    /\ (last.op = "togglePause" /\ (prev.isGameOver \/ prev.showBreakReminder))
       => game = prev

\* C15, its case: togglePause while the break reminder shows
C15_TogglePauseAtTheBreak ==
    /\ last.op = "togglePause"
    /\ prev.showBreakReminder /\ ~prev.isGameOver
    /\ game = prev /\ game.isPaused

\* C16: with the reminder enabled a tick adds its deltaMs to sessionElapsedMs
\* and ends with showBreakReminder and isPaused exactly when sessionElapsedMs
\* has reached settings.sessionReminderMs; a tick applied while
\* showBreakReminder holds changes nothing; with the reminder disabled a tick
\* changes neither sessionElapsedMs nor showBreakReminder
C16_BreakReminder ==
    /\ (ticked /\ prev.settings.sessionReminderEnabled)
       => /\ game.sessionElapsedMs = prev.sessionElapsedMs + clampDelta(last.deltaMs)
          /\ game.showBreakReminder
                = (game.sessionElapsedMs >= game.settings.sessionReminderMs)
          /\ game.showBreakReminder => game.isPaused
    /\ (last.op = "tick" /\ prev.showBreakReminder) => game = prev
    /\ (ticked /\ ~prev.settings.sessionReminderEnabled)
       => /\ game.sessionElapsedMs = prev.sessionElapsedMs
          /\ ~game.showBreakReminder

\* C16, its case: the tick in which sessionElapsedMs reaches the interval
C16_BreakRaised ==
    /\ ticked
    /\ prev.sessionElapsedMs < prev.settings.sessionReminderMs
    /\ game.sessionElapsedMs = game.settings.sessionReminderMs
    /\ game.showBreakReminder /\ game.isPaused

\* C17: dismissBreakReminder leaves showBreakReminder false and
\* sessionElapsedMs 0, leaves isPaused false exactly when the game is not
\* over, and changes no other field than the announcement
C17_DismissBreakReminder ==
    last.op = "dismissBreakReminder"
    => /\ ~game.showBreakReminder
       /\ game.sessionElapsedMs = 0
       /\ game.isPaused = prev.isGameOver
       /\ game.isGameOver = prev.isGameOver
       /\ [game EXCEPT !.showBreakReminder = prev.showBreakReminder,
                       !.sessionElapsedMs = prev.sessionElapsedMs,
                       !.isPaused = prev.isPaused,
                       !.announcement = prev.announcement,
                       !.announcementTimerMs = prev.announcementTimerMs] = prev

\* C17, its case: the break reminder of a running game is dismissed
C17_BreakDismissed ==
    /\ last.op = "dismissBreakReminder"
    /\ prev.showBreakReminder /\ ~prev.isGameOver
    /\ prev.sessionElapsedMs > 0 /\ prev.score > 0
    /\ ~game.showBreakReminder /\ ~game.isPaused
    /\ game.sessionElapsedMs = 0

\* the distance of the centres of a pair, in thousandths, rounded down
centreDistance(pair) ==
    hypot(pair.second.x - pair.first.x, pair.second.y - pair.first.y)

\* the pair is one that resolvePlanetPair separates: both visible, the
\* distance of the centres above 0.001 and below the sum of the radii
overlapping(pair) ==
    /\ pair.first.visible /\ pair.second.visible
    /\ centreDistance(pair) > 1
    /\ centreDistance(pair) < (pair.first.radius + pair.second.radius) * 1000

\* the relative velocity of a pair along its line of centres, times the distance
approach(pair) ==
    (pair.second.vx - pair.first.vx) * (pair.second.x - pair.first.x)
    + (pair.second.vy - pair.first.vy) * (pair.second.y - pair.first.y)

\* C18: resolvePlanetPair puts an overlapping visible pair at the distance
\* r1 + r2 (within 0.002 of it, and exactly there from the distance 20 of the
\* radii 13 and 16), keeps the midpoint and the sum of the velocities, and
\* leaves the pair non-approaching
C18_ResolvePlanetPair ==
    (last.op = "resolvePlanetPair" /\ overlapping(prev))
    => /\ Abs(centreDistance(game)
              - (prev.first.radius + prev.second.radius) * 1000) <= 2
       /\ centreDistance(prev) = 20000 => centreDistance(game) = 29000
       /\ game.first.x + game.second.x = prev.first.x + prev.second.x
       /\ game.first.y + game.second.y = prev.first.y + prev.second.y
       /\ game.first.vx + game.second.vx = prev.first.vx + prev.second.vx
       /\ game.first.vy + game.second.vy = prev.first.vy + prev.second.vy
       /\ approach(game) >= 0

\* C18, its case: radii 13 and 16 at the distance 20, off the axes and
\* approaching, end at the distance 29
C18_TwentyToTwentyNine ==
    /\ last.op = "resolvePlanetPair" /\ overlapping(prev)
    /\ prev.second.x - prev.first.x = 12000
    /\ centreDistance(prev) = 20000
    /\ approach(prev) < 0
    /\ centreDistance(game) = 29000
    /\ approach(game) > 0

\* C19: completing a mission never lowers lives: a tick without a hazard
\* contact that completes a mission ends with at least the lives it began with
C19_MissionNeverLowersLives ==
    (/\ ticked
     /\ "jupiter" \notin last.touch
     /\ game.missionsCompleted > prev.missionsCompleted)
    => game.lives >= prev.lives

\* the hazard step of the last tick found the player touching the hazard
\* while invulnerable
invulnerableContact ==
    /\ ticked
    /\ "jupiter" \in last.touch
    /\ ready(atHazard, "jupiter")
    /\ atHazard.invulnerabilityMs > 0

\* the last tick without the contact with the hazard
withoutHazard == tick(prev, last.deltaMs, last.touch \ {"jupiter"}, {})

\* C20: a hazard contact while invulnerabilityMs > 0 only sets the hazard's
\* cooldown to 500 ms: lives, shieldCharges, combo, score, the catch counters
\* and the event counters end the tick as they do without the contact
C20_InvulnerableContactIsHarmless ==
    invulnerableContact
    => /\ game.bodies["jupiter"].cooldownMs = Ms(500)
       /\ game.lives = withoutHazard.lives
       /\ game.shieldCharges = withoutHazard.shieldCharges
       /\ game.combo = withoutHazard.combo
       /\ game.score = withoutHazard.score
       /\ game.planetCatches = withoutHazard.planetCatches
       /\ game.eventSignal = withoutHazard.eventSignal

\* the state the hazard step of the last tick left
afterHazard == moveHazard(atHazard, clampDelta(last.deltaMs), last.touch)

\* the hazard step of the last tick found the player touching the hazard,
\* not invulnerable, with a shield charge
shieldedContact ==
    /\ ticked
    /\ "jupiter" \in last.touch
    /\ ready(atHazard, "jupiter")
    /\ atHazard.invulnerabilityMs = 0
    /\ atHazard.shieldCharges > 0

\* C21: a hazard contact with invulnerabilityMs = 0 and shieldCharges > 0
\* takes one shield charge and nothing else of the player's: lives, combo,
\* score and the hit counter stay, the shield counter rises by 1,
\* invulnerabilityMs is set to 1800 ms (the tick's own decay follows) and the
\* hazard's cooldown to 900 ms
C21_ShieldAbsorbsContact ==
    shieldedContact
    => /\ afterHazard.shieldCharges = atHazard.shieldCharges - 1
       /\ afterHazard.lives = atHazard.lives
       /\ afterHazard.combo = atHazard.combo
       /\ afterHazard.comboTimerMs = atHazard.comboTimerMs
       /\ afterHazard.score = atHazard.score
       /\ afterHazard.secondChanceUsed = atHazard.secondChanceUsed
       /\ afterHazard.isGameOver = atHazard.isGameOver
       /\ afterHazard.player = atHazard.player
       /\ afterHazard.eventSignal = [atHazard.eventSignal EXCEPT !["shield"] = @ + 1]
       /\ afterHazard.invulnerabilityMs = Ms(1800)
       /\ afterHazard.bodies["jupiter"].cooldownMs = Ms(900)
       /\ game.eventSignal["hit"] = prev.eventSignal["hit"]
       /\ game.eventSignal["shield"] = prev.eventSignal["shield"] + 1
       /\ game.invulnerabilityMs = Ms(1800) - clampDelta(last.deltaMs)
       /\ game.bodies["jupiter"].cooldownMs = Ms(900)

\* C21, its case: a shield absorbs a contact during a combo
C21_ShieldDuringCombo ==
    /\ shieldedContact
    /\ atHazard.combo > 1 /\ atHazard.shieldCharges = 2
    /\ game.shieldCharges = 1
    /\ game.lives = prev.lives
    /\ game.combo = atHazard.combo

\* the last tick raised the hit counter
hitInTick == ticked /\ game.eventSignal["hit"] > prev.eventSignal["hit"]

\* C22: the hit counter rises in a tick only if shieldCharges = 0,
\* invulnerabilityMs = 0 and the hazard's cooldown 0 held at the start of the
\* tick, and by at most 1; the hit takes exactly one life (a second chance
\* then restores it to 1), sets combo to 1, comboTimerMs to 0 and the hazard's
\* cooldown to 1200 ms; no other operation raises the hit counter
C22_Hit ==
    /\ last.op = "tick"
       => game.eventSignal["hit"] - prev.eventSignal["hit"] \in {0, 1}
    /\ last.op # "tick" => game.eventSignal["hit"] <= prev.eventSignal["hit"]
    /\ hitInTick
       => /\ prev.shieldCharges = 0
          /\ prev.invulnerabilityMs = 0
          /\ prev.bodies["jupiter"].cooldownMs = 0
          /\ "jupiter" \in last.touch
          /\ atHazard.shieldCharges = 0
          /\ afterHazard.lives = IF atHazard.lives = 1 /\ ~atHazard.secondChanceUsed
                                 THEN 1 ELSE atHazard.lives - 1
          /\ afterHazard.eventSignal["hit"] = atHazard.eventSignal["hit"] + 1
          /\ game.combo = 1
          /\ game.comboTimerMs = 0
          /\ game.bodies["jupiter"].cooldownMs = Ms(1200)

\* C22, its case: a hit at a combo whose timer runs, with lives to spare
C22_HitAfterPickup ==
    /\ hitInTick
    /\ prev.combo > 1 /\ prev.comboTimerMs > 0
    /\ prev.lives = 4 /\ game.lives = 3
    /\ game.combo = 1

\* C23: in every state between operations the current mission is active:
\* progress < target and timeLeftMs > 0; a mission that reaches its target or
\* runs out of time is replaced within the same tick
C23_MissionIsActive ==
    /\ game.currentMission.progress < game.currentMission.target
    /\ game.currentMission.timeLeftMs > 0

\* C23, its case: the tick that brings the mission's time to 0 ends with the
\* next mission
C23_ExpiredMissionReplaced ==
    /\ ticked
    /\ prev.currentMission.timeLeftMs <= clampDelta(last.deltaMs)
    /\ game.currentMission.id = prev.currentMission.id + 1
    /\ game.currentMission.timeLeftMs > 0

\* the missions completed, the level-ups and the pickups of the last tick
completions == game.missionsCompleted - prev.missionsCompleted

levelUps == game.eventSignal["level"] - prev.eventSignal["level"]

picked == last.touch \cap testable(prev)

\* collectible.points of the core planets, config.sunPoints of the sun
corePoints(state, id) ==
    IF id = "sun" THEN getDifficultyConfig(state.difficulty).sunPoints
    ELSE collectiblePoints(state, id)

\* the combo at the end of a tick without a pickup or a hit that began at `state`
comboAfterDecay(state, deltaMs) ==
    IF state.comboTimerMs > 0 /\ state.comboTimerMs <= deltaMs THEN 1 ELSE state.combo

\* the level-ups of the pickup of a tick with at most one pickup: 1 when its
\* points lift the score over a multiple of levelScoreStep
pickupLevelUps ==
    IF \E id \in picked :
          (prev.score + corePoints(prev, id) * prev.combo)
             \div getDifficultyConfig(prev.difficulty).levelScoreStep > stepsOfScore(prev)
    THEN 1 ELSE 0

\* the level-ups the rewards of the last tick's completions brought
rewardLevelUps == levelUps - pickupLevelUps

\* what a tick with one mission completion leaves, the completion granting
\* `charges` shield charges: of the survive mission in a tick without a
\* pickup, and of a pickup mission in a tick with that one pickup
completionLeaves(charges) ==
    /\ (ticked /\ picked = {} /\ completions > 0)
       => /\ completions = 1
          /\ game.score = prev.score + prev.currentMission.rewardPoints
          /\ game.eventSignal["collect"] = prev.eventSignal["collect"]
          /\ game.combo = comboAfterDecay(prev, clampDelta(last.deltaMs))
          /\ game.eventSignal["mission"] = prev.eventSignal["mission"] + 1
          /\ game.shieldCharges = Min(5, prev.shieldCharges + charges)
          /\ game.currentMission
                = [createMission(prev.missionSeed + 1, prev.difficulty)
                      EXCEPT !.timeLeftMs = @ - clampDelta(last.deltaMs)]
    /\ \A id \in {"earth", "mars", "sun"} :
          (ticked /\ picked = {id} /\ completions > 0)
          => /\ completions = 1
             /\ game.score = prev.score + corePoints(prev, id) * prev.combo
                                + prev.currentMission.rewardPoints
             /\ game.eventSignal["collect"] = prev.eventSignal["collect"] + 1
             /\ game.combo = Min(9, prev.combo + 1)
             /\ game.eventSignal["mission"] = prev.eventSignal["mission"] + 1
             /\ game.shieldCharges = Min(5, prev.shieldCharges + pickupLevelUps + charges)
             /\ game.currentMission.id = prev.currentMission.id + 1
             /\ game.currentMission.progress
                   = IF game.currentMission.kind = "survive"
                     THEN clampDelta(last.deltaMs) ELSE 0

\* every completion is counted once and installs the next mission
completedOnce ==
    /\ ticked
       => /\ completions >= 0
          /\ game.eventSignal["mission"] - prev.eventSignal["mission"] = completions
          /\ game.currentMission.id >= prev.currentMission.id + completions
    /\ ~ticked => completions = 0

\* C24 as stated: a mission completion adds exactly rewardPoints to the score
\* (not multiplied by the combo, combo and collect counter as without it),
\* raises missionsCompleted and the mission counter by 1, adds one shield
\* charge capped at 5 and installs a new mission with progress 0; no mission
\* is completed twice
C24_CompletionAddsOneCharge == completionLeaves(1) /\ completedOnce

\* C24 as amended: the same, the completion adding one shield charge capped
\* at 5 and one more, capped too, when its reward raises the level
C24_MissionCompletion == completionLeaves(1 + rewardLevelUps) /\ completedOnce

\* C24, its case: the survive mission completes at combo 5 and 160 points;
\* its reward of 78 is added once and lifts the level: two charges
C24_RewardLiftsLevel ==
    /\ ticked /\ picked = {} /\ completions = 1
    /\ prev.combo = 5 /\ game.combo = 5
    /\ prev.score = 160 /\ game.score = 238
    /\ rewardLevelUps = 1
    /\ game.shieldCharges = prev.shieldCharges + 2

\* the last tick brought the time of the mission it began with to 0, the
\* mission short of its target
expired ==
    /\ ticked
    /\ prev.currentMission.timeLeftMs <= clampDelta(last.deltaMs)
    /\ completions = 0

\* the last tick with one more second on the mission's clock
withoutTimeout ==
    tick([prev EXCEPT !.currentMission.timeLeftMs = @ + Ms(1000)],
         last.deltaMs, last.touch, {})

\* C25: a tick that brings currentMission.timeLeftMs to 0 with
\* progress < target ends with the next mission, fresh (progress 0,
\* timeLeftMs its full time limit); score, lives, shieldCharges,
\* missionsCompleted and the mission counter are what the tick leaves
\* without the timeout
C25_ExpiredMission ==
    expired
    => /\ game.missionSeed = prev.missionSeed + 1
       /\ game.currentMission = createMission(prev.missionSeed + 1, prev.difficulty)
       /\ game.currentMission.progress = 0
       /\ game.currentMission.timeLeftMs = game.currentMission.timeLimitMs
       /\ game.score = withoutTimeout.score
       /\ game.lives = withoutTimeout.lives
       /\ game.shieldCharges = withoutTimeout.shieldCharges
       /\ game.missionsCompleted = withoutTimeout.missionsCompleted
       /\ game.eventSignal["mission"] = withoutTimeout.eventSignal["mission"]
       /\ picked = {}
          => /\ game.score = prev.score
             /\ game.lives = prev.lives
             /\ game.shieldCharges = prev.shieldCharges
             /\ game.missionsCompleted = prev.missionsCompleted
             /\ game.eventSignal["mission"] = prev.eventSignal["mission"]

\* C25, its case: the sun mission runs out after a streak; the survive
\* mission follows with its 30 seconds
C25_SunMissionExpires ==
    /\ expired
    /\ prev.currentMission.kind = "sun" /\ prev.score > 0
    /\ game.currentMission.kind = "survive"
    /\ game.currentMission.progress = 0
    /\ game.currentMission.timeLeftMs = Ms(30000)
    /\ game.score = prev.score

\* the missions the last operation replaced: the completed ones and the
\* expired one of a tick, the one a round reset drops
replacements ==
    IF ticked THEN completions + (IF expired THEN 1 ELSE 0)
    ELSE IF roundReset THEN 1
    ELSE 0

\* C26: missionSeed never decreases and grows by exactly 1 with each
\* replacement of the current mission (completion, expiry, restartGame,
\* setDifficulty with a new key), and at no other time; the current mission is
\* the template at index missionSeed mod 4 of earth, mars, sun, survive, with
\* target >= 1 and reward >= 25, both scaled by the current difficulty
C26_MissionSeed ==
    /\ game.missionSeed >= prev.missionSeed
    /\ game.missionSeed = prev.missionSeed + replacements
    /\ game.currentMission.id = game.missionSeed
    /\ game.currentMission.kind
          = <<"earth", "mars", "sun", "survive">>[(game.missionSeed % 4) + 1]
    /\ game.currentMission.target >= 3000
    /\ game.currentMission.rewardPoints >= 25
    /\ [game.currentMission EXCEPT !.progress = 0, !.timeLeftMs = 0]
          = [createMission(game.missionSeed, game.difficulty) EXCEPT !.timeLeftMs = 0]

\* C26, its case: past the fourth template the list starts over, and a change
\* of the difficulty installs the next template scaled by the new difficulty
C26_SecondTemplateScaledHard ==
    /\ last.op = "setDifficulty"
    /\ prev.missionSeed = 4 /\ prev.currentMission.kind = "earth"
    /\ game.difficulty = "hard"
    /\ game.missionSeed = 5
    /\ game.currentMission.kind = "mars"
    /\ game.currentMission.target = 3000 * 2
    /\ game.currentMission.rewardPoints = 96

\* the bodies on cooldown when the last tick began
cooling == {p \in Planets : prev.bodies[p].cooldownMs > 0}

\* the cooldown a pickup or a contact sets
fullCooldowns(id) ==
    CASE id \in {"earth", "mars"} -> {Ms(500)}
      [] id = "sun" -> {Ms(1000)}
      [] id = "jupiter" -> {Ms(500), Ms(900), Ms(1200)}
      [] OTHER -> {Ms(650)}

\* C27: a body whose cooldownMs is > 0 when a tick begins triggers no pickup
\* and no hazard consequence in that tick, even if its cooldown reaches 0 in
\* it: the tick is the one without the body being touched.  A pickup or a
\* contact leaves the body its full cooldown (500 ms core, 650 ms extra,
\* 1000 ms home, 500/900/1200 ms hazard), a tick takes its deltaMs off it and
\* no command but a round reset changes it
C27_NoPickupDuringCooldown ==
    /\ ticked
       => /\ \E collide \in CollideSets(prev) :
                game = tick(prev, last.deltaMs, last.touch \ cooling, collide)
          /\ \A p \in cooling :
                /\ game.planetCatches[p] = prev.planetCatches[p]
                /\ game.bodies[p].cooldownMs
                      = Max(0, prev.bodies[p].cooldownMs - clampDelta(last.deltaMs))
          /\ \A p \in Planets :
                game.planetCatches[p] > prev.planetCatches[p]
                => /\ game.planetCatches[p] = prev.planetCatches[p] + 1
                   /\ game.bodies[p].cooldownMs \in fullCooldowns(p)
    /\ (~ticked /\ ~roundReset)
       => \A p \in Planets :
             /\ game.bodies[p].cooldownMs = prev.bodies[p].cooldownMs
             /\ game.planetCatches[p] = prev.planetCatches[p]

\* C27, its case: the player is on the earth in the tick that ends the
\* earth's cooldown, and picks nothing up
C27_CooldownEndsInTheTick ==
    /\ ticked
    /\ "earth" \in last.touch
    /\ prev.bodies["earth"].cooldownMs > 0
    /\ game.bodies["earth"].cooldownMs = 0
    /\ game.planetCatches["earth"] = prev.planetCatches["earth"]
    /\ game.score = prev.score

\* C28: in every reachable state comboTimerMs = 0 implies combo = 1: the
\* combo is reset in the tick its timer reaches 0 and a combo above 1 has a
\* running timer.  The timer is at most 4200 ms, a tick without a pickup
\* takes its deltaMs off it (a hit sets it to 0) and no command raises it, so
\* 4200 ms of tick time without a pickup leave combo at 1
C28_ComboHasTimer ==
    /\ game.comboTimerMs = 0 => game.combo = 1
    /\ game.comboTimerMs >= 0 /\ game.comboTimerMs <= Ms(4200)
    /\ (ticked /\ game.eventSignal["collect"] = prev.eventSignal["collect"])
       => game.comboTimerMs
             = IF hitInTick THEN 0
               ELSE Max(0, prev.comboTimerMs - clampDelta(last.deltaMs))
    /\ ~ticked
       => /\ game.comboTimerMs <= prev.comboTimerMs
          /\ game.combo <= prev.combo

\* C28, its case: the tick that brings the timer of a combo of 3 to 0
C28_ComboLost ==
    /\ ticked
    /\ prev.combo = 3 /\ prev.comboTimerMs > 0
    /\ game.comboTimerMs = 0
    /\ game.combo = 1
    /\ ~hitInTick

\* C29: in every reachable state level = floor(score / levelScoreStep) + 1
\* with the step of the current difficulty, and no operation but a round
\* reset (restartGame, a change of the difficulty) lowers the level
C29_LevelOfScore ==
    /\ game.level = (game.score \div getDifficultyConfig(game.difficulty).levelScoreStep) + 1
    /\ ~roundReset => game.level >= prev.level
    /\ roundReset => game.level = 1 /\ game.score = 0

\* C29, its case: a pickup at combo 9 lifts the score from 1772 to 1916 and
\* the level from 9 to 10
C29_TenthLevel ==
    /\ ticked
    /\ prev.score = 1772 /\ prev.level = 9
    /\ game.score = 1916 /\ game.level = 10

\* C30: every unlock predicate that holds has its item granted, at the end of
\* every tick and in every state between operations; an item is granted once,
\* never dropped, and its grant raises the unlock or the badge counter by 1
C30_UnlocksFollowPredicates ==
    /\ game.score >= 160 => includes(game.unlockedSkins, "neon")
    /\ game.missionsCompleted >= 3 => includes(game.unlockedSkins, "comet")
    /\ game.planetCatches["sun"] >= 5 => includes(game.unlockedSkins, "solar")
    /\ game.missionsCompleted >= 1 => includes(game.badges, "mission-starter")
    /\ game.planetCatches["mars"] >= 6 => includes(game.badges, "mars-collector")
    /\ game.score >= 500 => includes(game.badges, "score-500")
    /\ game.sessionElapsedMs >= Ms(180000) => includes(game.badges, "space-marathon")
    /\ startsWith(game.unlockedSkins, prev.unlockedSkins) /\ distinct(game.unlockedSkins)
    /\ startsWith(game.badges, prev.badges) /\ distinct(game.badges)
    /\ ~roundReset
       => /\ game.eventSignal["unlock"] - prev.eventSignal["unlock"]
                = Len(game.unlockedSkins) - Len(prev.unlockedSkins)
          /\ game.eventSignal["badge"] - prev.eventSignal["badge"]
                = Len(game.badges) - Len(prev.badges)

\* C30, its case: the tick that ends the third minute of the session grants
\* the marathon badge, which only the check at the end of the tick can see
C30_MarathonBadge ==
    /\ ticked
    /\ prev.sessionElapsedMs < Ms(180000)
    /\ game.sessionElapsedMs >= Ms(180000)
    /\ ~includes(prev.badges, "space-marathon")
    /\ includes(game.badges, "space-marathon")
    /\ game.eventSignal["badge"] = prev.eventSignal["badge"] + 1
    /\ includes(game.unlockedSkins, "neon") /\ includes(game.badges, "score-500")

\* C40: a round reset (restartGame, setDifficulty with another key) sets
\* missionsCompleted to 0 together with score, level and planetCatches
C40_RoundResetClearsMissionsCompleted ==
    roundReset
    => /\ game.missionsCompleted = 0
       /\ game.score = 0
       /\ game.level = 1
       /\ game.planetCatches = emptyPlanetCatches

\* C32: windMode is derived: in every reachable state, after any tick or
\* command, it is true exactly when the player's speed is at least the
\* windThreshold of the current difficulty
C32_WindModeIsDerived ==
    game.windMode
       = (hypot(game.player.vx, game.player.vy)
             >= getDifficultyConfig(game.difficulty).windThreshold)

\* C34: in every reachable state isGameOver implies secondChanceUsed; within
\* a round secondChanceUsed only changes from false to true; a round has at
\* most one second chance restore: a hit at the last life with the second
\* chance used restores nothing and ends the game; game over is entered only
\* with the second chance used
C34_SecondChanceOncePerRound ==
    /\ game.isGameOver => game.secondChanceUsed
    /\ (~roundReset /\ prev.secondChanceUsed) => game.secondChanceUsed
    /\ roundReset => ~game.secondChanceUsed /\ ~game.isGameOver
    /\ (game.secondChanceUsed /\ ~prev.secondChanceUsed)
       => /\ hitInTick /\ atHazard.lives = 1
          /\ afterHazard.lives = 1 /\ ~game.isGameOver
    /\ (hitInTick /\ prev.secondChanceUsed /\ atHazard.lives = 1)
       => afterHazard.lives = 0 /\ game.isGameOver
    /\ (game.isGameOver /\ ~prev.isGameOver)
       => hitInTick /\ prev.secondChanceUsed

\* C34, its case: the round's second hit at the last life ends the game
C34_NoSecondRestore ==
    /\ hitInTick
    /\ prev.secondChanceUsed /\ prev.lives = 1
    /\ ~prev.isGameOver /\ game.isGameOver
    /\ game.lives = 0

\* C35: in every reachable state isGameOver implies lives = 0: what runs in
\* the tick after the game-over transition raises neither lives nor score
C35_GameOverAtZeroLives ==
    /\ game.isGameOver => game.lives = 0
    /\ (ticked /\ game.isGameOver) => game.score = afterHazard.score

\* C36: showBreakReminder and isGameOver are never both true: a tick that
\* enters game over does not raise the break reminder too
C36_BreakOrGameOver == ~(game.showBreakReminder /\ game.isGameOver)

\* C37: within a round no life is lost to the hazard for 1300 ms of tick time
\* after a hit, the hit tick's own deltaMs counted: a hit needs
\* invulnerabilityMs = 0 at the start of its tick and leaves 1300 ms (2600 ms
\* with the second chance) less the tick's clamped deltaMs; a tick lowers
\* invulnerabilityMs by its clamped deltaMs at most, and no operation but a
\* round reset lowers it otherwise
C37_InvulnerableAfterHit ==
    /\ hitInTick
       => /\ prev.invulnerabilityMs = 0
          /\ game.invulnerabilityMs >= Ms(HIT_INVULNERABILITY_MS) - clampDelta(last.deltaMs)
    /\ ticked
       => game.invulnerabilityMs >= prev.invulnerabilityMs - clampDelta(last.deltaMs)
    /\ (~ticked /\ ~roundReset) => game.invulnerabilityMs >= prev.invulnerabilityMs
    /\ (ticked /\ prev.invulnerabilityMs > 0) => game.lives >= prev.lives

\* C37, its case: after a hit the hazard is touched again, its cooldown over,
\* while the invulnerability of the hit lasts, and no life is lost
C37_SecondContactSpared ==
    /\ ticked
    /\ prev.eventSignal["hit"] > 0
    /\ prev.invulnerabilityMs > 0
    /\ prev.shieldCharges = 0
    /\ prev.bodies["jupiter"].cooldownMs = 0
    /\ "jupiter" \in last.touch
    /\ game.lives = prev.lives
    /\ game.eventSignal["hit"] = prev.eventSignal["hit"]

\* C38: a survive mission never expires by timeout on any difficulty: its
\* target is 19, 22 or 26 seconds and its limit 30 seconds; while it is current
\* its progress is the time its clock has lost, short of the target; a tick
\* that began with it either adds its clamped deltaMs to the progress and takes
\* it from the time left, or ends with the mission completed and replaced
C38_SurviveNeverExpires ==
    /\ game.currentMission.kind = "survive"
       => /\ game.currentMission.target \in {Ms(19000), Ms(22000), Ms(26000)}
          /\ game.currentMission.timeLimitMs = Ms(30000)
          /\ game.currentMission.progress
                = game.currentMission.timeLimitMs - game.currentMission.timeLeftMs
          /\ game.currentMission.progress < game.currentMission.target
    /\ (ticked /\ prev.currentMission.kind = "survive")
       => \/ /\ game.currentMission.id = prev.currentMission.id
             /\ completions = 0
             /\ game.currentMission.progress
                   = prev.currentMission.progress + clampDelta(last.deltaMs)
             /\ game.currentMission.timeLeftMs
                   = prev.currentMission.timeLeftMs - clampDelta(last.deltaMs)
          \/ /\ game.currentMission.id = prev.currentMission.id + 1
             /\ completions = 1
             /\ prev.currentMission.progress + clampDelta(last.deltaMs)
                   >= prev.currentMission.target
    /\ expired => prev.currentMission.kind # "survive"

\* C38, its case: a survive mission is completed with time to spare
C38_SurvivedInTime ==
    /\ ticked
    /\ prev.currentMission.kind = "survive"
    /\ prev.currentMission.progress > 0
    /\ prev.currentMission.timeLeftMs > Ms(4000)
    /\ completions = 1
    /\ game.currentMission.kind = "earth"

\* the last tick replaced the mission it began with
missionEnded == last.op = "tick" /\ game.currentMission.id > prev.currentMission.id

\* C39: under continued applied ticks every mission ends: the time left of the
\* current mission is above 0 and at most its limit; a tick that ends with
\* the mission it began with has lowered its time left by the clamped deltaMs,
\* 8 to 48 ms; a tick that replaces the mission completed it or found no more
\* time left than its deltaMs; and the mission the round is found with is
\* replaced in the end
C39_EveryMissionEnds ==
    /\ [](/\ game.currentMission.timeLeftMs > 0
          /\ game.currentMission.timeLeftMs <= game.currentMission.timeLimitMs
          /\ (ticked /\ game.currentMission.id = prev.currentMission.id)
             => /\ prev.currentMission.timeLeftMs - game.currentMission.timeLeftMs
                      = clampDelta(last.deltaMs)
                /\ prev.currentMission.timeLeftMs - game.currentMission.timeLeftMs
                      \in Ms(8)..Ms(48)
          /\ (ticked /\ game.currentMission.id # prev.currentMission.id)
             => /\ game.currentMission.id > prev.currentMission.id
                /\ \/ completions > 0
                   \/ prev.currentMission.timeLeftMs <= clampDelta(last.deltaMs))
    /\ <>missionEnded

\* C39, its case: a mission whose time ran out under the ticks of more than
\* half a minute is replaced
C39_MissionTimedOut ==
    /\ missionEnded
    /\ completions = 0
    /\ prev.currentMission.timeLeftMs <= clampDelta(last.deltaMs)
    /\ prev.currentMission.progress = 0
    /\ prev.sessionElapsedMs >= Ms(33000)
    /\ game.currentMission.timeLeftMs = game.currentMission.timeLimitMs

\* C31: at the end of every tick every body has its centre inside
\* [radius, arenaWidth - radius] x [radius, arenaHeight - radius], also in
\* ticks where the collision pass separates overlapping bodies next to a wall
C31_BodiesInsideArena ==
    last.op = "moveThenCollide"
    => /\ insideArena(game.first, DEFAULT_ARENA_WIDTH, DEFAULT_ARENA_HEIGHT)
       /\ insideArena(game.second, DEFAULT_ARENA_WIDTH, DEFAULT_ARENA_HEIGHT)

\* C33: the frame loop clamps each frame delta to at most 50 ms, dispatches
\* tick with deltaMs 1000/60 while the accumulator is at least 1000/60 (the
\* store's session clock advances by 1000/60 ms per dispatched tick) and ends
\* every frame with 0 <= accumulator < 1000/60; the loop of a frame ends
\* after 3 ticks at most
C33_FixedTimestep ==
    /\ game.accumulator >= 0
    /\ game.accumulator < fixedStep
    /\ last.op = "frame"
       => /\ game.dispatched <= 3
          /\ game.dispatched * fixedStep + game.accumulator
                = prev.accumulator + Min(Ms(50), last.deltaMs)
          /\ game.store.sessionElapsedMs
                = prev.store.sessionElapsedMs + game.dispatched * fixedStep
          /\ game.lastFrameTime = prev.lastFrameTime + last.deltaMs

\* C33, its case: a frame 100 ms after the frame before it finds a rest in
\* the accumulator, dispatches 3 ticks and leaves the rest
C33_LongFrame ==
    /\ last.op = "frame"
    /\ last.deltaMs = Ms(100)
    /\ prev.accumulator = fixedStep - 1
    /\ game.dispatched = 3
    /\ game.accumulator = fixedStep - 1

====
